---- MODULE Spec2Model ----
(***************************************************************************)
(* Church-year calendar of the Kirkkovuosi API: computus, church-year      *)
(* generation, the calendar cache and the date resolver.                   *)
(*                                                                         *)
(* A JavaScript Date is a count of milliseconds since 1970-01-01T00:00Z.   *)
(* Every Date the services build is a UTC midnight (makeDate, addDays), so *)
(* a Date is modelled by its day number: days since 1970-01-01.  Ordering  *)
(* (<, <=) and subtraction of Dates carry over unchanged.                  *)
(* formatDate's "YYYY-MM-DD" string is modelled by the triple <<y, m, d>>  *)
(* it is printed from (zero padding is injective for 4-digit years).       *)
(* The display name of a calendar entry is a literal of its add() call and *)
(* is read by no decision; entries carry date, slug, type and dateStr.     *)
(***************************************************************************)
EXTENDS Integers, Sequences, FiniteSets, TLC

VARIABLES
    pc,             \* "idle" | "ready" (a call is pending) | "done" (it returned)
    req,            \* the pending or last call: [op, arg]
    ret,            \* the value the last call returned
    calendarCache,  \* resolver: const calendarCache = new Map()
    dataFile,       \* which data directory the process reads (index into
                    \* dayFiles and propersFiles)
    allDaysData,    \* resolver: let allDaysData = null
    daysBySlug,     \* resolver: let daysBySlug = null
    propersData,    \* propers: let propersData = null
    log             \* history: the calls served, [op, arg, hit, generated, ret]

vars == <<pc, req, ret, calendarCache, dataFile, allDaysData, daysBySlug, propersData, log>>

\* The boundary layer accepts start years (and dates of years) 1900..2100.
MinYear == 1900
MaxYear == 2100

\* Longest call sequence explored by the stateful specification.
MaxCalls == 3

\* null; a nullable string, number or array v is carried as <<v>>.
NULL == <<>>
Some(v) == <<v>>

\* ─── Date built-ins (UTC) ─────────────────────────────────────────────────

\* Date.UTC(year, month - 1, day) / 86400000 for a valid civil date.
makeDate(year, month, day) ==
    LET y   == IF month <= 2 THEN year - 1 ELSE year
        era == y \div 400
        yoe == y - era * 400
        mp  == IF month > 2 THEN month - 3 ELSE month + 9
        doy == (153 * mp + 2) \div 5 + day - 1
        doe == yoe * 365 + yoe \div 4 - yoe \div 100 + doy
    IN  era * 146097 + doe - 719468

\* <<getUTCFullYear(), getUTCMonth() + 1, getUTCDate()>> of a Date.
civil(date) ==
    LET z   == date + 719468
        era == z \div 146097
        doe == z - era * 146097
        yoe == (doe - doe \div 1460 + doe \div 36524 - doe \div 146096) \div 365
        doy == doe - (365 * yoe + yoe \div 4 - yoe \div 100)
        mp  == (5 * doy + 2) \div 153
        d   == doy - (153 * mp + 2) \div 5 + 1
        m   == IF mp < 10 THEN mp + 3 ELSE mp - 9
        y   == yoe + era * 400 + (IF m <= 2 THEN 1 ELSE 0)
    IN  <<y, m, d>>

getUTCFullYear(date) == civil(date)[1]

\* result.setUTCDate(result.getUTCDate() + days): day overflow carries.
addDays(date, days) == date + days

\* date.getUTCDay(): 0 = Sunday .. 6 = Saturday; 1970-01-01 was a Thursday.
dayOfWeek(date) == (date + 4) % 7

\* Seeded fault: always the Sunday on or before the date.
nearestSundayBefore(date) == addDays(date, -dayOfWeek(date))

nearestSunday(date) ==
    LET dow == dayOfWeek(date)
    IN  IF dow = 0 THEN date
        ELSE IF dow <= 3 THEN addDays(date, -dow)
        ELSE addDays(date, 7 - dow)

sundayOnOrAfter(date) ==
    LET dow == dayOfWeek(date)
    IN  IF dow = 0 THEN date ELSE addDays(date, 7 - dow)

weekdayOnOrBefore(date, weekday) ==
    LET dow  == dayOfWeek(date)
        diff == (dow - weekday + 7) % 7
    IN  addDays(date, -diff)

saturdayOnOrBefore(date) == weekdayOnOrBefore(date, 6)

\* `${y}-${mm}-${dd}`
formatDate(date) == civil(date)

\* str.split('-').map(Number) -> makeDate(y, m, d)
parseDate(str) == makeDate(str[1], str[2], str[3])

\* ─── Computus ─────────────────────────────────────────────────────────────

\* Seeded fault: the day of the month left zero-based.
easterSundayZeroBased(year) ==
    LET a == year % 19
        b == year \div 100
        c == year % 100
        d == b \div 4
        e == b % 4
        f == (b + 8) \div 25
        g == (b - f + 1) \div 3
        h == (19 * a + b - d - g + 15) % 30
        i == c \div 4
        k == c % 4
        l == (32 + 2 * e + 2 * i - h - k) % 7
        m == (a + 11 * h + 22 * l) \div 451
        month == (h + l - 7 * m + 114) \div 31
        day == (h + l - 7 * m + 114) % 31
    IN  makeDate(year, month, day)

easterSunday(year) ==
    LET a == year % 19
        b == year \div 100
        c == year % 100
        d == b \div 4
        e == b % 4
        f == (b + 8) \div 25
        g == (b - f + 1) \div 3
        h == (19 * a + b - d - g + 15) % 30
        i == c \div 4
        k == c % 4
        l == (32 + 2 * e + 2 * i - h - k) % 7
        m == (a + 11 * h + 22 * l) \div 451
        month == (h + l - 7 * m + 114) \div 31
        day == ((h + l - 7 * m + 114) % 31) + 1
    IN  makeDate(year, month, day)

\* Seeded fault: the cycle taken modulo 4.
getYearCycleOfFour(churchYearStartYear) == (churchYearStartYear % 4) + 1

getYearCycle(churchYearStartYear) == (churchYearStartYear % 3) + 1

\* Seeded fault: the 1st Advent Sunday itself counted to the previous church year.
getChurchYearStartLate(date) ==
    LET year == getUTCFullYear(date)
        advent1ThisYear == nearestSunday(makeDate(year, 11, 30))
    IN  IF date <= advent1ThisYear THEN year - 1 ELSE year

getChurchYearStart(date) ==
    LET year == getUTCFullYear(date)
        advent1ThisYear == nearestSunday(makeDate(year, 11, 30))
    IN  IF date < advent1ThisYear THEN year - 1 ELSE year

\* ─── Church calendar generation ───────────────────────────────────────────

\* Template literals `${n}-<stem>`: the decimal numeral of n, then the stem.
sunnuntaiLoppiaisestaSlugs ==
    << "1-sunnuntai-loppiaisesta", "2-sunnuntai-loppiaisesta", "3-sunnuntai-loppiaisesta",
       "4-sunnuntai-loppiaisesta", "5-sunnuntai-loppiaisesta", "6-sunnuntai-loppiaisesta" >>

paastonajanSunnuntaiSlugs ==
    << "1-paastonajan-sunnuntai", "2-paastonajan-sunnuntai", "3-paastonajan-sunnuntai",
       "4-paastonajan-sunnuntai", "5-paastonajan-sunnuntai" >>

sunnuntaiPaasiaisestaSlugs ==
    << "1-sunnuntai-paasiaisesta", "2-sunnuntai-paasiaisesta", "3-sunnuntai-paasiaisesta",
       "4-sunnuntai-paasiaisesta", "5-sunnuntai-paasiaisesta", "6-sunnuntai-paasiaisesta" >>

sunnuntaiHelluntaistaSlugs ==
    << "1-sunnuntai-helluntaista", "2-sunnuntai-helluntaista", "3-sunnuntai-helluntaista",
       "4-sunnuntai-helluntaista", "5-sunnuntai-helluntaista", "6-sunnuntai-helluntaista",
       "7-sunnuntai-helluntaista", "8-sunnuntai-helluntaista", "9-sunnuntai-helluntaista",
       "10-sunnuntai-helluntaista", "11-sunnuntai-helluntaista", "12-sunnuntai-helluntaista",
       "13-sunnuntai-helluntaista", "14-sunnuntai-helluntaista", "15-sunnuntai-helluntaista",
       "16-sunnuntai-helluntaista", "17-sunnuntai-helluntaista", "18-sunnuntai-helluntaista",
       "19-sunnuntai-helluntaista", "20-sunnuntai-helluntaista", "21-sunnuntai-helluntaista",
       "22-sunnuntai-helluntaista", "23-sunnuntai-helluntaista", "24-sunnuntai-helluntaista",
       "25-sunnuntai-helluntaista", "26-sunnuntai-helluntaista", "27-sunnuntai-helluntaista",
       "28-sunnuntai-helluntaista", "29-sunnuntai-helluntaista", "30-sunnuntai-helluntaista" >>

\* const add = (date, slug, name, type = 'sunday') => entries.push({...})
add(date, slug, type) ==
    [date |-> date, slug |-> slug, type |-> type, dateStr |-> formatDate(date)]

\* Seeded fault: the loop stops before Saturday (d < 6).
addWeekdaysToFriday(sunday, slug) ==
    [d \in 1..5 |-> add(addDays(sunday, d), slug, "weekday")]

\* Weekday entries (Mon-Sat) for the week following a Sunday.
addWeekdays(sunday, slug) ==
    [d \in 1..6 |-> add(addDays(sunday, d), slug, "weekday")]

\* Seeded fault: the range test dropped, the next Sunday always returned.
sundayAfterUnranged(after, rangeStart, rangeEnd) ==
    <<sundayOnOrAfter(addDays(after, 1))>>

\* The first Sunday strictly after `after`, if within [rangeStart, rangeEnd].
\* The Date-or-null result is <<candidate>> or <<>> (null).
sundayAfterInRange(after, rangeStart, rangeEnd) ==
    LET candidate == sundayOnOrAfter(addDays(after, 1))
    IN  IF candidate >= rangeStart /\ candidate <= rangeEnd
        THEN <<candidate>> ELSE <<>>

\* Array.prototype.sort with the comparator (a, b) => key(a) - key(b): the
\* sort is stable, so arr[i] lands after every element with a smaller key and
\* after every earlier element with the same key.  keys[i] is the key of arr[i].
arraySort(arr, keys) ==
    LET n    == Len(arr)
        rank == [i \in 1..n |->
                    1 + Cardinality({j \in 1..n :
                            keys[j] < keys[i] \/ (keys[j] = keys[i] /\ j < i)})] \o <<>>
    IN  [p \in 1..n |-> arr[CHOOSE i \in 1..n : rank[i] = p]] \o <<>>

\* Seeded fault: the loop runs up to and including septuagesima (<=).
RECURSIVE epiphanySundaysInclusive(_, _, _)
epiphanySundaysInclusive(epiphanySunday, epiphanyCount, septuagesima) ==
    IF epiphanySunday <= septuagesima /\ epiphanyCount <= 6
    THEN <<add(epiphanySunday, sunnuntaiLoppiaisestaSlugs[epiphanyCount], "sunday")>>
         \o epiphanySundaysInclusive(addDays(epiphanySunday, 7), epiphanyCount + 1,
                                     septuagesima)
    ELSE <<>>

\* while (epiphanySunday < septuagesima && epiphanyCount <= 6) { add; += 7; ++ }
RECURSIVE epiphanySundays(_, _, _)
epiphanySundays(epiphanySunday, epiphanyCount, septuagesima) ==
    IF epiphanySunday < septuagesima /\ epiphanyCount <= 6
    THEN <<add(epiphanySunday, sunnuntaiLoppiaisestaSlugs[epiphanyCount], "sunday")>>
         \o epiphanySundays(addDays(epiphanySunday, 7), epiphanyCount + 1, septuagesima)
    ELSE <<>>

\* while (currentSunday <= tuomiosunnuntai) { push {date, number}; += 7; ++ }
RECURSIVE pentecostSundayList(_, _, _)
pentecostSundayList(currentSunday, sundayNumber, tuomiosunnuntai) ==
    IF currentSunday <= tuomiosunnuntai
    THEN <<[date |-> currentSunday, number |-> sundayNumber]>>
         \o pentecostSundayList(addDays(currentSunday, 7), sundayNumber + 1, tuomiosunnuntai)
    ELSE <<>>

\* Seeded fault: the index relabeling tested before the end-of-year one.
pentecostSundayEntryIndexFirst(pentecostSundays, i0) ==
    LET date      == pentecostSundays[i0].date
        fromStart == (i0 - 1) + 2
        fromEnd   == Len(pentecostSundays) - (i0 - 1)
    IN  IF fromStart = 6 THEN add(date, "apostolien-paiva", "sunday")
        ELSE IF fromStart = 8 THEN add(date, "kirkastussunnuntai", "sunday")
        ELSE IF fromStart = 22 THEN add(date, "reformaation-paiva", "sunday")
        ELSE IF fromEnd = 1 THEN add(date, "tuomiosunnuntai", "sunday")
        ELSE IF fromEnd = 2 THEN add(date, "valvomisen-sunnuntai", "sunday")
        ELSE add(date, sunnuntaiHelluntaistaSlugs[fromStart], "sunday")

\* Seeded fault: the two end-of-year labels swapped.
pentecostSundayEntrySwapped(pentecostSundays, i0) ==
    LET date      == pentecostSundays[i0].date
        fromStart == (i0 - 1) + 2
        fromEnd   == Len(pentecostSundays) - (i0 - 1)
    IN  IF fromEnd = 1 THEN add(date, "valvomisen-sunnuntai", "sunday")
        ELSE IF fromEnd = 2 THEN add(date, "tuomiosunnuntai", "sunday")
        ELSE IF fromStart = 6 THEN add(date, "apostolien-paiva", "sunday")
        ELSE IF fromStart = 8 THEN add(date, "kirkastussunnuntai", "sunday")
        ELSE IF fromStart = 22 THEN add(date, "reformaation-paiva", "sunday")
        ELSE add(date, sunnuntaiHelluntaistaSlugs[fromStart], "sunday")

\* for (i = 0; i < pentecostSundays.length; i++) { ... } with i0 = i + 1
pentecostSundayEntry(pentecostSundays, i0) ==
    LET date      == pentecostSundays[i0].date
        fromStart == (i0 - 1) + 2
        fromEnd   == Len(pentecostSundays) - (i0 - 1)
    IN  IF fromEnd = 1 THEN add(date, "tuomiosunnuntai", "sunday")
        ELSE IF fromEnd = 2 THEN add(date, "valvomisen-sunnuntai", "sunday")
        ELSE IF fromStart = 6 THEN add(date, "apostolien-paiva", "sunday")
        ELSE IF fromStart = 8 THEN add(date, "kirkastussunnuntai", "sunday")
        ELSE IF fromStart = 22 THEN add(date, "reformaation-paiva", "sunday")
        ELSE add(date, sunnuntaiHelluntaistaSlugs[fromStart], "sunday")

\* An optional add(): if (cond) add(...)
addIf(cond, date, slug, type) == IF cond THEN <<add(date, slug, type)>> ELSE <<>>

\* Seeded fault: the window opened a day late, (Easter - 6, Easter + 7].
annunciationKeptLate(annunciation, easter) ==
    annunciation <= addDays(easter, -6) \/ annunciation > addDays(easter, 7)

\* if (annunciation < addDays(easter, -6) || annunciation > addDays(easter, 7))
annunciationKept(annunciation, easter) ==
    annunciation < addDays(easter, -6) \/ annunciation > addDays(easter, 7)

\* Seeded fault: the year of Easter off by one.
easterOfYearAfterNext(startYear) == easterSunday(startYear + 2)

\* const easter = easterSunday(startYear + 1): Easter is in the next calendar year
easterOfChurchYear(startYear) == easterSunday(startYear + 1)

\* The entries in the order the generator pushes them (before the sort).
generatedEntries(startYear) ==
    LET easter   == easterOfChurchYear(startYear)
        advent1  == nearestSunday(makeDate(startYear, 11, 30))
        advent2  == addDays(advent1, 7)
        advent3  == addDays(advent1, 14)
        advent4  == addDays(advent1, 21)
        christmas == makeDate(startYear, 12, 25)
        sun1christmas == sundayAfterInRange(christmas,
                             makeDate(startYear, 12, 27), makeDate(startYear + 1, 1, 2))
        sun2christmas == sundayAfterInRange(makeDate(startYear + 1, 1, 1),
                             makeDate(startYear + 1, 1, 2), makeDate(startYear + 1, 1, 5))
        epiphany     == makeDate(startYear + 1, 1, 6)
        septuagesima == addDays(easter, -63)
        sexagesima   == addDays(easter, -56)
        estoMihi     == addDays(easter, -49)
        ashWednesday == addDays(easter, -46)
        palmSunday   == addDays(easter, -7)
        ascension    == addDays(easter, 39)
        pentecost    == addDays(easter, 49)
        trinity      == addDays(pentecost, 7)
        nextAdvent1  == nearestSunday(makeDate(startYear + 1, 11, 30))
        tuomiosunnuntai     == addDays(nextAdvent1, -7)
        valvomisenSunnuntai == addDays(nextAdvent1, -14)
        pentecostSundays == pentecostSundayList(addDays(pentecost, 14), 2, tuomiosunnuntai)
        annunciation  == makeDate(startYear + 1, 3, 25)
        juhannuspaiva == saturdayOnOrBefore(makeDate(startYear + 1, 6, 26))
        mikkelTarget  == makeDate(startYear + 1, 9, 29)
        mikkelinpaiva == sundayOnOrAfter(mikkelTarget)
        pyhainpaiva   == saturdayOnOrBefore(makeDate(startYear + 1, 11, 6))
    IN  \* 1st Advent Sunday and its week, 2nd-4th Advent Sundays
        <<add(advent1, "1-adventtisunnuntai", "sunday")>>
        \o addWeekdays(advent1, "1-adventtisunnuntain-jalkeinen-viikko")
        \o <<add(advent2, "2-adventtisunnuntai", "sunday"),
             add(advent3, "3-adventtisunnuntai", "sunday"),
             add(advent4, "4-adventtisunnuntai", "sunday")>>
        \* Christmas season
        \o <<add(makeDate(startYear, 12, 24), "jouluaatto", "feast"),
             add(christmas, "joulupaiva", "feast"),
             add(makeDate(startYear, 12, 26), "tapaninpaiva", "feast"),
             add(makeDate(startYear, 12, 27), "apostoli-johanneksen-paiva", "feast"),
             add(makeDate(startYear, 12, 28), "viattomien-lasten-paiva", "feast")>>
        \o addIf(sun1christmas # <<>>, sun1christmas[1], "1-sunnuntai-joulusta", "sunday")
        \o <<add(makeDate(startYear, 12, 31), "uudenvuodenaatto", "feast"),
             add(makeDate(startYear + 1, 1, 1), "uudenvuodenpaiva", "feast")>>
        \o addIf(sun2christmas # <<>>, sun2christmas[1], "2-sunnuntai-joulusta", "sunday")
        \* Epiphany season
        \o <<add(epiphany, "loppiainen", "feast")>>
        \o epiphanySundays(sundayOnOrAfter(addDays(epiphany, 1)), 1, septuagesima)
        \* Pre-Lent Sundays
        \o <<add(septuagesima, "3-sunnuntai-ennen-paastonaikaa", "sunday"),
             add(sexagesima, "2-sunnuntai-ennen-paastonaikaa", "sunday"),
             add(estoMihi, "laskiaissunnuntai", "sunday")>>
        \* Lent
        \o <<add(ashWednesday, "tuhkakeskiviikko", "weekday")>>
        \o [i \in 1..5 |->
              add(addDays(easter, -49 + i * 7), paastonajanSunnuntaiSlugs[i], "sunday")]
        \* Holy Week
        \o <<add(palmSunday, "palmusunnuntai", "sunday"),
             add(addDays(easter, -6), "hiljaisen-viikon-maanantai", "weekday"),
             add(addDays(easter, -5), "hiljaisen-viikon-tiistai", "weekday"),
             add(addDays(easter, -4), "hiljaisen-viikon-keskiviikko", "weekday"),
             add(addDays(easter, -3), "kiirastorstai", "feast"),
             add(addDays(easter, -2), "pitkaperjantai", "feast"),
             add(addDays(easter, -2), "jeesuksen-kuolinhetki", "service"),
             add(addDays(easter, -2), "pitkaperjantain-ilta", "service"),
             add(addDays(easter, -1), "hiljainen-lauantai", "weekday")>>
        \* Easter and Easter week
        \o <<add(addDays(easter, -1), "paasiaisyo", "service"),
             add(easter, "paasiaispaiva", "feast"),
             add(addDays(easter, 1), "2-paasiaispaiva", "feast"),
             add(addDays(easter, 2), "paasiaisen-jalkeinen-tiistai", "weekday"),
             add(addDays(easter, 3), "paasiaisen-jalkeinen-keskiviikko", "weekday"),
             add(addDays(easter, 4), "paasiaisen-jalkeinen-torstai", "weekday"),
             add(addDays(easter, 5), "paasiaisen-jalkeinen-perjantai", "weekday"),
             add(addDays(easter, 6), "paasiaisen-jalkeinen-lauantai", "weekday")>>
        \* Sundays after Easter
        \o [i \in 1..6 |->
              add(addDays(easter, i * 7), sunnuntaiPaasiaisestaSlugs[i], "sunday")]
        \* Ascension, Pentecost and Pentecost week, Trinity
        \o <<add(ascension, "helatorstai", "feast"),
             add(addDays(pentecost, -1), "helluntaiaatto", "service"),
             add(pentecost, "helluntaipaiva", "feast")>>
        \o addWeekdays(pentecost, "helluntain-jalkeinen-viikko-eli-helluntaiviikko")
        \o <<add(trinity, "pyhan-kolminaisuuden-paiva", "sunday")>>
        \* Sundays after Pentecost
        \o [i0 \in 1..Len(pentecostSundays) |-> pentecostSundayEntry(pentecostSundays, i0)]
        \* Special feasts with fixed or semi-fixed dates
        \o <<add(makeDate(startYear + 1, 2, 2), "kynttilanpaiva", "special")>>
        \o addIf(annunciationKept(annunciation, easter),
                 annunciation, "marian-ilmestyspaiva", "special")
        \o addIf(juhannuspaiva >= makeDate(startYear + 1, 6, 20),
                 juhannuspaiva, "juhannuspaiva", "special")
        \o addIf(mikkelinpaiva <= makeDate(startYear + 1, 10, 5),
                 mikkelinpaiva, "mikkelinpaiva", "special")
        \o addIf(pyhainpaiva >= makeDate(startYear + 1, 10, 31),
                 pyhainpaiva, "pyhainpaiva", "special")
        \o <<add(makeDate(startYear + 1, 1, 19), "pyhan-henrikin-muistopaiva", "special"),
             add(makeDate(startYear + 1, 12, 6), "itsenaisyyspaiva", "special"),
             add(makeDate(startYear + 1, 1, 18), "kansalliset-rukouspaivat", "special"),
             add(makeDate(startYear + 1, 10, 24), "kansalliset-rukouspaivat", "special")>>

\* Seeded fault: an unstable sort, entries of one date in reverse order.
sortByDateTiesReversed(entries) ==
    arraySort(entries, [i \in 1..Len(entries) |-> entries[i].date * 1000 - i] \o <<>>)

\* entries.sort((a, b) => a.date - b.date)
sortByDate(entries) ==
    arraySort(entries, [i \in 1..Len(entries) |-> entries[i].date] \o <<>>)

generateChurchYear(startYear) == sortByDate(generatedEntries(startYear))

\* ─── Strings ──────────────────────────────────────────────────────────────

Range(seq) == {seq[i] : i \in DOMAIN seq}

\* String.prototype.includes, tabulated over the strings the model handles
\* (the slugs the generator emits, the references of dayFiles and the
\* occasions of propersFiles): for each needle the code searches for, the
\* strings that contain it.
stringsIncluding(needle) ==
    CASE needle = "adventti" ->
          {"1-adventtisunnuntai", "1-adventtisunnuntain-jalkeinen-viikko",
           "1. adventtisunnuntai", "2-adventtisunnuntai", "3-adventtisunnuntai",
           "4-adventtisunnuntai"}
      [] needle = "advent" ->
          {"1-adventtisunnuntai", "1-adventtisunnuntain-jalkeinen-viikko",
           "1. adventtisunnuntai", "2-adventtisunnuntai", "3-adventtisunnuntai",
           "4-adventtisunnuntai"}
      [] needle = "joulu" ->
          {"1-sunnuntai-joulusta", "2-sunnuntai-joulusta",
           "Jouluyönä, jouluaamuna, joulupäivänä", "jouluaatto", "joulupaiva"}
      [] needle = "christmas" ->
          {}
      [] needle = "loppiai" ->
          Range(sunnuntaiLoppiaisestaSlugs)
          \cup {"loppiainen"}
      [] needle = "paasto" ->
          Range(paastonajanSunnuntaiSlugs)
          \cup {"2-sunnuntai-ennen-paastonaikaa", "3-sunnuntai-ennen-paastonaikaa"}
      [] needle = "laskiai" ->
          {"laskiaissunnuntai"}
      [] needle = "hiljai" ->
          {"hiljainen-lauantai", "hiljaisen-viikon-keskiviikko",
           "hiljaisen-viikon-maanantai", "hiljaisen-viikon-tiistai"}
      [] needle = "kiiras" ->
          {"kiirastorstai"}
      [] needle = "pitkap" ->
          {"pitkaperjantai", "pitkaperjantain-ilta"}
      [] needle = "palmu" ->
          {"palmusunnuntai"}
      [] needle = "paasiai" ->
          Range(sunnuntaiPaasiaisestaSlugs)
          \cup {"2-paasiaispaiva", "paasiaisen-jalkeinen-keskiviikko",
           "paasiaisen-jalkeinen-lauantai", "paasiaisen-jalkeinen-perjantai",
           "paasiaisen-jalkeinen-tiistai", "paasiaisen-jalkeinen-torstai",
           "paasiaispaiva", "paasiaisyo"}
      [] needle = "helluntai" ->
          Range(sunnuntaiHelluntaistaSlugs)
          \cup {"helluntaiaatto", "helluntain-jalkeinen-viikko-eli-helluntaiviikko",
           "helluntaipaiva"}
      [] needle = "kolminai" ->
          {"pyhan-kolminaisuuden-paiva"}
      [] needle = "helatorstai" ->
          {"helatorstai"}
      [] needle = "shel" ->
          {}
      [] needle = "helluntaista" ->
          Range(sunnuntaiHelluntaistaSlugs)
      [] needle = "sunnuntai-joulusta" ->
          {"1-sunnuntai-joulusta", "2-sunnuntai-joulusta"}
      [] needle = "sunnuntai-loppiaisesta" ->
          Range(sunnuntaiLoppiaisestaSlugs)
      [] needle = "ennen-paastonaikaa" ->
          {"2-sunnuntai-ennen-paastonaikaa", "3-sunnuntai-ennen-paastonaikaa"}
      [] needle = "hiljaisen-viikon" ->
          {"hiljaisen-viikon-keskiviikko", "hiljaisen-viikon-maanantai",
           "hiljaisen-viikon-tiistai"}
      [] needle = "jalkeinen" ->
          {"1-adventtisunnuntain-jalkeinen-viikko",
           "helluntain-jalkeinen-viikko-eli-helluntaiviikko",
           "paasiaisen-jalkeinen-keskiviikko", "paasiaisen-jalkeinen-lauantai",
           "paasiaisen-jalkeinen-perjantai", "paasiaisen-jalkeinen-tiistai",
           "paasiaisen-jalkeinen-torstai"}
      [] needle = "ks." ->
          {"ks. 1. vuosikerta"}
      [] needle = "1. adventtisunnuntai" ->
          {"1. adventtisunnuntai"}
      [] needle = "Adventtiaikana" ->
          {}
      [] needle = "Jouluaattona" ->
          {}
      [] needle = "Jouluyönä" ->
          {"Jouluyönä, jouluaamuna, joulupäivänä"}
      [] needle = "joulupäivänä" ->
          {"Jouluyönä, jouluaamuna, joulupäivänä"}
      [] needle = "Tapaninpäivänä" ->
          {}
      [] needle = "Loppiaisena" ->
          {}
      [] needle = "Laskiaissunnuntaina" ->
          {}
      [] needle = "Palmusunnuntaina" ->
          {}
      [] needle = "Kiirastorstaina" ->
          {}
      [] needle = "Pitkäperjantaina" ->
          {}
      [] needle = "Pääsiäisyönä" ->
          {}
      [] needle = "Pääsiäis" ->
          {"Pääsiäisenä, pääsiäisaikana"}
      [] needle = "Helluntaina" ->
          {}
      [] needle = "Pyhän Kolminaisuuden" ->
          {"Pyhän Kolminaisuuden päivänä"}
      [] needle = "Uskonpuhdistuksen" ->
          {}
      [] needle = "Kynttilänpäivänä" ->
          {}
      [] needle = "Marian ilmestyspäivänä" ->
          {}
      [] needle = "Juhannuspäivänä" ->
          {}
      [] needle = "Mikkelinpäivänä" ->
          {}
      [] needle = "Pyhäinpäivänä" ->
          {}
      [] needle = "Pyhän Henrikin" ->
          {}
      [] needle = "Loppiaisaikana" ->
          {}
      [] needle = "Paastonajan" ->
          {}
      [] needle = "paastonajan" ->
          Range(paastonajanSunnuntaiSlugs)
      [] needle = "Pääsiäisaikana" ->
          {}
      [] needle = "jouluaikana" ->
          {}

includes(str, needle) == str \in stringsIncluding(needle)

\* ─── Reference data: all-days.json ────────────────────────────────────────

\* JavaScript truthiness: of a nullable object or array, and of a nullable
\* string (the empty string is falsy).
truthy(v) == v # NULL
truthyString(v) == v # NULL /\ v # Some("")

\* v || null, for a nullable string
orNull(v) == IF truthyString(v) THEN v ELSE NULL

\* One parsed reading: { reference, bookIntro, text }.
reading(reference, text, bookIntro) ==
    [reference |-> reference, text |-> text, bookIntro |-> bookIntro]

\* One parsed holy day (the parser's result object).
dayRecord(slug, season, liturgicalColor, yearCycles, weekdayTexts, prayers) ==
    [slug |-> slug, season |-> season, period |-> NULL, latinName |-> NULL,
     description |-> NULL, liturgicalColor |-> liturgicalColor, hymns |-> NULL,
     psalm |-> NULL, hallelujah |-> NULL, psalmVerse |-> NULL,
     yearCycles |-> yearCycles, prayers |-> prayers, weekdayTexts |-> weekdayTexts]

\* The all-days.json files the model runs with (one per data directory): an
\* empty one, and one with a per-cycle record whose cycles 2 and 3
\* cross-reference cycle 1 (with and without a text of their own, and for a
\* reading cycle 1 lacks), a per-cycle record without cycle 1, a weekday
\* record and a record without texts.
dayFiles ==
    << <<>>,
       << dayRecord("pitkaperjantai", Some("Paasiaisjakso"), Some("musta"),
              ( "1" :> [firstReading  |-> reading(Some("Jes. 53:1-12"), Some("t-jes"), Some("i-jes")),
                       secondReading |-> NULL,
                       gospel |-> reading(Some("Joh. 19:16-30"), Some("t-joh"), NULL)] @@
                "2" :> [firstReading  |-> reading(Some("ks. 1. vuosikerta"), NULL, NULL),
                       secondReading |-> reading(Some("ks. 1. vuosikerta"), NULL, NULL),
                       gospel |-> reading(Some("Joh. 19:16-30"), Some("t-joh"), NULL)] @@
                "3" :> [firstReading  |-> reading(Some("ks. 1. vuosikerta"), Some(""), NULL),
                       secondReading |-> reading(Some("Matt. 21:1-9"), NULL, NULL),
                       gospel |-> reading(Some("ks. 1. vuosikerta"), Some("t-oma"), NULL)] ),
              NULL, Some(<<"r1", "r2">>)),
          dayRecord("1-adventtisunnuntai", NULL, Some("valkoinen"),
              ( "3" :> [firstReading  |-> reading(Some("ks. 1. vuosikerta"), NULL, NULL),
                        secondReading |-> NULL,
                        gospel |-> reading(Some("Matt. 21:1-9"), Some("t-matt"), NULL)] ),
              NULL, Some(<<"r3">>)),
          dayRecord("1-adventtisunnuntain-jalkeinen-viikko", Some("Joulujakso"), NULL,
              NULL, [otReadings |-> <<"Jes. 53:1-12">>, ntReadings |-> <<>>, gospel |-> NULL],
              NULL),
          dayRecord("tuomiosunnuntai", Some(""), Some("vihrea"), NULL, NULL, NULL) >> >>

\* daysBySlug = new Map(); for (const day of allDaysData) daysBySlug.set(day.slug, day)
slugMap(days) ==
    [sl \in {days[i].slug : i \in 1..Len(days)} |->
        days[CHOOSE i \in 1..Len(days) :
                 days[i].slug = sl /\ \A j \in (i + 1)..Len(days) : days[j].slug # sl]]

\* Seeded fault: a slug without a record answered with some record of the map.
getDayDataOrAny(days, slug) ==
    IF slug \in DOMAIN days THEN days[slug]
    ELSE IF DOMAIN days = {} THEN NULL
    ELSE days[CHOOSE sl \in DOMAIN days : TRUE]

\* daysBySlug.get(slug) || null, on the loaded map
getDayData(days, slug) == IF slug \in DOMAIN days THEN days[slug] ELSE NULL

\* data?.field
field(data, f) == IF data = NULL THEN NULL ELSE data[f]

\* ─── Reference data: propers.json ─────────────────────────────────────────

\* One preface ending, as the propers parser emits it.
prefaatio(period, appliesTo) ==
    [title |-> <<"Prefaation päätös", period>>, period |-> period,
     appliesTo |-> appliesTo, text |-> <<"teksti", period>>]

\* One Kyrie litany.
kyrieLitania(season, slug) == [season |-> season, slug |-> slug, texts |-> <<season>>]

\* One psalm refrain.
kertosae(number, title, occasion) ==
    [number |-> number, title |-> title, occasion |-> occasion, alternatives |-> <<>>]

\* A parsed JSON object that lacks one field.
without(object, f) == [k \in DOMAIN object \ {f} |-> object[k]]

\* The refrains of the propers.json files: those of the documentation, a
\* refrain for a day that has no season key (found by its occasion alone) and
\* a refrain without an occasion.
refrains ==
    << kertosae(1, "Tule, Herra Jeesus", Some("1. adventtisunnuntai")),
       kertosae(7, "Meille on syntynyt Vapahtaja",
                Some("Jouluyönä, jouluaamuna, joulupäivänä")),
       kertosae(16, "Kristus on ylösnoussut", Some("Pääsiäisenä, pääsiäisaikana")),
       kertosae(22, "Pyhä, pyhä, pyhä", Some("Pyhän Kolminaisuuden päivänä")),
       kertosae(30, "Herra on minun paimeneni", NULL) >>

\* A propers.json whose collections are in another order than the parser's
\* and that has no litany for karsimysaika.
reorderedPropers ==
    [prefaatiot |->
        << prefaatio("kärsimysaikana", <<"karsimysaika">>),
           prefaatio("paastonaikana", <<"paastonaika">>),
           prefaatio("jouluaikana",
                     <<"jouluaika", "kynttilanpaiva", "marian-ilmestyspaiva">>),
           prefaatio("jouluna", <<"jouluaatto", "jouluyo", "joulupaiva">>),
           prefaatio("pääsiäisaikana", <<"paasiaisaika">>),
           prefaatio("yleinen", <<"yleinen">>) >>,
     kyrieLitaniat |->
        << kyrieLitania("Pitkäperjantai ja hiljainen lauantai",
                        "pitkaperjantai-hiljainen-lauantai"),
           kyrieLitania("Paastonaika", "paastonaika"),
           kyrieLitania("Joulu ja jouluaika", "joulu-jouluaika") >>,
     kertosaakeet |-> refrains]

\* The propers.json files the model runs with. The first two stand beside the
\* all-days.json files of dayFiles: one with empty collections, and one with
\* the preface endings and litanies in the order the propers parser emits
\* them. The others are read by the propers functions alone: the reordered
\* file, a file with a preface ending that has no appliesTo list, and files
\* that lack the prefaatiot, kyrieLitaniat or kertosaakeet collection.
propersFiles ==
    << [prefaatiot |-> <<>>, kyrieLitaniat |-> <<>>, kertosaakeet |-> <<>>],
       [prefaatiot |->
            << prefaatio("adventtiaikana", <<"adventtiaika">>),
               prefaatio("jouluna", <<"jouluaatto", "jouluyo", "joulupaiva">>),
               prefaatio("jouluaikana",
                         <<"jouluaika", "kynttilanpaiva", "marian-ilmestyspaiva">>),
               prefaatio("loppiaisena", <<"loppiainen">>),
               prefaatio("loppiaisaikana", <<"loppiaisaika", "paastonaikaa-edeltavat">>),
               prefaatio("paastonaikana", <<"paastonaika">>),
               prefaatio("kärsimysaikana", <<"karsimysaika">>),
               prefaatio("pääsiäisyönä", <<"paasiaisyo", "paasiaispaiva">>),
               prefaatio("pääsiäisaikana", <<"paasiaisaika">>),
               prefaatio("helatorstaista", <<"helatorstai-helluntaiaatto">>),
               prefaatio("helluntaina", <<"helluntai">>),
               prefaatio("yleinen", <<"yleinen">>) >>,
        kyrieLitaniat |->
            << kyrieLitania("1. adventtisunnuntai", "1-adventtisunnuntai"),
               kyrieLitania("Adventtiaika", "adventtiaika"),
               kyrieLitania("Joulu ja jouluaika", "joulu-jouluaika"),
               kyrieLitania("Paastonaika", "paastonaika"),
               kyrieLitania("Kärsimysaika", "karsimysaika"),
               kyrieLitania("Pitkäperjantai ja hiljainen lauantai",
                            "pitkaperjantai-hiljainen-lauantai"),
               kyrieLitania("Pääsiäinen ja pääsiäisaika", "paasiainen-paasiaisaika"),
               kyrieLitania("Helatorstaista helluntaiaattoon", "helatorstai-helluntaiaatto"),
               kyrieLitania("Helluntai", "helluntai") >>,
        kertosaakeet |-> refrains],
       reorderedPropers,
       [prefaatiot |->
            << prefaatio("adventtiaikana", <<"adventtiaika">>),
               without(prefaatio("jouluna", <<>>), "appliesTo"),
               prefaatio("paastonaikana", <<"paastonaika">>) >>,
        kyrieLitaniat |-> reorderedPropers.kyrieLitaniat,
        kertosaakeet |-> refrains],
       without(reorderedPropers, "prefaatiot"),
       without(reorderedPropers, "kyrieLitaniat"),
       without(reorderedPropers, "kertosaakeet") >>

\* ─── Propers ──────────────────────────────────────────────────────────────

\* keys.push(...) when the condition holds
pushIf(cond, keys) == IF cond THEN keys ELSE <<>>

\* [...new Set(keys)]: the first occurrence of every key, in order
unique(keys) ==
    LET firsts == {i \in 1..Len(keys) : \A j \in 1..(i - 1) : keys[j] # keys[i]}
    IN  [p \in 1..Cardinality(firsts) |->
            keys[CHOOSE i \in firsts : Cardinality({j \in firsts : j < i}) = p - 1]] \o <<>>

\* slug.match(/\d-paastonajan-sunnuntai/) and slug.match(/\d-sunnuntai-paasiaisesta/),
\* on the slugs the model handles
matchesPaastonajanSunnuntai(slug) == slug \in Range(paastonajanSunnuntaiSlugs)
matchesSunnuntaiPaasiaisesta(slug) == slug \in Range(sunnuntaiPaasiaisestaSlugs)

\* parseInt(slug) of an `${i}-paastonajan-sunnuntai` slug: its leading numeral
parseInt(slug) == CHOOSE i \in 1..Len(paastonajanSunnuntaiSlugs) : paastonajanSunnuntaiSlugs[i] = slug

getSeasonKeys(slug, dayData) ==
    unique(
        pushIf(slug = "1-adventtisunnuntai", <<"1-adventtisunnuntai">>)
     \o pushIf(includes(slug, "adventti"), <<"adventtiaika">>)
     \o pushIf(slug = "jouluaatto", <<"jouluaatto", "jouluaika">>)
     \o pushIf(slug = "jouluyo", <<"jouluyo", "jouluaika">>)
     \o pushIf(slug = "joulupaiva", <<"joulupaiva", "jouluaika">>)
     \o pushIf(slug = "tapaninpaiva", <<"jouluaika">>)
     \o pushIf(includes(slug, "sunnuntai-joulusta"), <<"jouluaika">>)
     \o pushIf(slug = "uudenvuodenpaiva", <<"jouluaika">>)
     \o pushIf(slug = "loppiainen", <<"loppiainen">>)
     \o pushIf(includes(slug, "sunnuntai-loppiaisesta"),
               <<"loppiaisaika", "paastonaikaa-edeltavat">>)
     \o pushIf(includes(slug, "ennen-paastonaikaa"),
               <<"loppiaisaika", "paastonaikaa-edeltavat">>)
     \o pushIf(slug = "laskiaissunnuntai", <<"loppiaisaika", "paastonaikaa-edeltavat">>)
     \o pushIf(slug = "tuhkakeskiviikko", <<"paastonaika">>)
     \o pushIf(matchesPaastonajanSunnuntai(slug), <<"paastonaika">>)
     \o pushIf(matchesPaastonajanSunnuntai(slug) /\ parseInt(slug) >= 5, <<"karsimysaika">>)
     \o pushIf(slug = "palmusunnuntai", <<"karsimysaika">>)
     \o pushIf(includes(slug, "hiljaisen-viikon"), <<"karsimysaika">>)
     \o pushIf(slug = "kiirastorstai", <<"karsimysaika">>)
     \o pushIf(slug = "pitkaperjantai", <<"karsimysaika", "pitkaperjantai">>)
     \o pushIf(slug = "hiljainen-lauantai", <<"karsimysaika">>)
     \o pushIf(slug = "paasiaisyo", <<"paasiaisyo", "paasiaispaiva">>)
     \o pushIf(slug = "paasiaispaiva", <<"paasiaispaiva">>)
     \o pushIf(slug = "2-paasiaispaiva", <<"paasiaisaika">>)
     \o pushIf(includes(slug, "jalkeinen") /\ includes(slug, "paasiai"), <<"paasiaisaika">>)
     \o pushIf(matchesSunnuntaiPaasiaisesta(slug), <<"paasiaisaika">>)
     \o pushIf(slug = "helatorstai", <<"helatorstai-helluntaiaatto">>)
     \o pushIf(slug = "6-sunnuntai-paasiaisesta", <<"helatorstai-helluntaiaatto">>)
     \o pushIf(slug = "helluntaiaatto", <<"helatorstai-helluntaiaatto">>)
     \o pushIf(slug = "helluntaipaiva", <<"helluntai">>)
     \o pushIf(slug = "apostolien-paiva", <<"apostolien-paiva">>)
     \o pushIf(slug = "pyhan-henrikin-muistopaiva", <<"pyhan-henrikin-muistopaiva">>)
     \o pushIf(slug = "mikkelinpaiva", <<"mikkelinpaiva">>)
     \o pushIf(slug = "valvomisen-sunnuntai", <<"valvomisen-sunnuntai">>)
     \o pushIf(slug = "tuomiosunnuntai", <<"tuomiosunnuntai">>)
     \o pushIf(slug = "kynttilanpaiva", <<"kynttilanpaiva", "jouluaika">>)
     \o pushIf(slug = "marian-ilmestyspaiva", <<"marian-ilmestyspaiva", "jouluaika">>))

\* The TypeError a function throws when it iterates over, or calls a method
\* of, a field its object does not have; a function that calls a thrower
\* without a try block throws it on.
TypeError == [error |-> "TypeError"]

\* object.f is undefined
lacks(object, f) == f \notin DOMAIN object

\* Seeded fault: the season keys are walked first, and the first key that an
\* ending lists decides.
getPrefaatioByKeyOrder(propers, slug, dayData) ==
    LET seasonKeys == getSeasonKeys(slug, dayData)
        endings == IF lacks(propers, "prefaatiot") THEN <<>> ELSE propers.prefaatiot
        unlisted == {i \in 1..Len(endings) : lacks(endings[i], "appliesTo")}
        lists(i, key) == i \notin unlisted /\ key \in Range(endings[i].appliesTo)
        keyHits == {k \in 1..Len(seasonKeys) :
                       \E i \in 1..Len(endings) : lists(i, seasonKeys[k])}
        firstKey == CHOOSE k \in keyHits : \A h \in keyHits : k <= h
        first == CHOOSE i \in 1..Len(endings) :
                     /\ lists(i, seasonKeys[firstKey])
                     /\ \A h \in 1..(i - 1) : ~lists(h, seasonKeys[firstKey])
    IN  IF lacks(propers, "prefaatiot") \/ unlisted # {} THEN TypeError
        ELSE IF keyHits = {} THEN NULL
        ELSE [title  |-> endings[first].title,
              period |-> endings[first].period,
              text   |-> endings[first].text]

\* The first preface ending, in collection order, one of whose appliesTo keys
\* is a season key. Both for...of loops throw on a missing list: the outer
\* at once, the inner when the walk reaches the ending before any match.
getPrefaatio(propers, slug, dayData) ==
    LET seasonKeys == getSeasonKeys(slug, dayData)
        endings == IF lacks(propers, "prefaatiot") THEN <<>> ELSE propers.prefaatiot
        unlisted == {i \in 1..Len(endings) : lacks(endings[i], "appliesTo")}
        hits == {i \in 1..Len(endings) \ unlisted :
                    \E j \in 1..Len(endings[i].appliesTo) :
                        endings[i].appliesTo[j] \in Range(seasonKeys)}
        first == CHOOSE i \in hits : \A k \in hits : i <= k
    IN  IF lacks(propers, "prefaatiot") THEN TypeError
        ELSE IF \E u \in unlisted : \A k \in hits : u < k THEN TypeError
        ELSE IF hits = {} THEN NULL
        ELSE [title  |-> endings[first].title,
              period |-> endings[first].period,
              text   |-> endings[first].text]

kyrieMapping ==
    [key \in {"1-adventtisunnuntai", "adventtiaika", "jouluaatto", "jouluyo",
              "joulupaiva", "jouluaika", "paastonaika", "karsimysaika",
              "pitkaperjantai", "paasiaisyo", "paasiaispaiva", "paasiaisaika",
              "helatorstai-helluntaiaatto", "helluntai"} |->
        CASE key \in {"jouluaatto", "jouluyo", "joulupaiva", "jouluaika"} -> "joulu-jouluaika"
          [] key = "pitkaperjantai" -> "pitkaperjantai-hiljainen-lauantai"
          [] key \in {"paasiaisyo", "paasiaispaiva", "paasiaisaika"} -> "paasiainen-paasiaisaika"
          [] OTHER -> key]

\* propers.kyrieLitaniat.find(k => k.slug === kyrieSlug), as a list of 0 or 1
findLitania(propers, kyrieSlug) ==
    LET found == SelectSeq(propers.kyrieLitaniat, LAMBDA k : k.slug = kyrieSlug)
    IN  IF found = <<>> THEN <<>> ELSE <<found[1]>>

\* Seeded fault: the season keys are walked from the last to the first.
getKyrieLitaniaLastKey(propers, slug, dayData) ==
    LET seasonKeys == getSeasonKeys(slug, dayData)
        mapped == {i \in 1..Len(seasonKeys) : seasonKeys[i] \in DOMAIN kyrieMapping}
        hits == {i \in mapped : findLitania(propers, kyrieMapping[seasonKeys[i]]) # <<>>}
        last == CHOOSE i \in hits : \A k \in hits : i >= k
    IN  IF lacks(propers, "kyrieLitaniat")
        THEN IF mapped = {} THEN NULL ELSE TypeError
        ELSE IF hits = {} THEN NULL
        ELSE findLitania(propers, kyrieMapping[seasonKeys[last]])[1]

\* The litany of the first season key that has a mapped slug with a litany.
\* The first key with a mapped slug calls find, which throws when the
\* collection is missing.
getKyrieLitania(propers, slug, dayData) ==
    LET seasonKeys == getSeasonKeys(slug, dayData)
        mapped == {i \in 1..Len(seasonKeys) : seasonKeys[i] \in DOMAIN kyrieMapping}
        hits == {i \in mapped : findLitania(propers, kyrieMapping[seasonKeys[i]]) # <<>>}
        first == CHOOSE i \in hits : \A k \in hits : i <= k
    IN  IF lacks(propers, "kyrieLitaniat")
        THEN IF mapped = {} THEN NULL ELSE TypeError
        ELSE IF hits = {} THEN NULL
        ELSE findLitania(propers, kyrieMapping[seasonKeys[first]])[1]

occasionMap ==
    ( "1-adventtisunnuntai" :> "1. adventtisunnuntai"
   @@ "adventtiaika" :> "Adventtiaikana"
   @@ "jouluaatto" :> "Jouluaattona"
   @@ "jouluyo" :> "Jouluyönä"
   @@ "joulupaiva" :> "joulupäivänä"
   @@ "tapaninpaiva" :> "Tapaninpäivänä"
   @@ "loppiainen" :> "Loppiaisena"
   @@ "laskiaissunnuntai" :> "Laskiaissunnuntaina"
   @@ "palmusunnuntai" :> "Palmusunnuntaina"
   @@ "kiirastorstai" :> "Kiirastorstaina"
   @@ "pitkaperjantai" :> "Pitkäperjantaina"
   @@ "paasiaisyo" :> "Pääsiäisyönä"
   @@ "paasiaispaiva" :> "Pääsiäis"
   @@ "helluntaipaiva" :> "Helluntaina"
   @@ "pyhan-kolminaisuuden-paiva" :> "Pyhän Kolminaisuuden"
   @@ "reformaation-paiva" :> "Uskonpuhdistuksen"
   @@ "kynttilanpaiva" :> "Kynttilänpäivänä"
   @@ "marian-ilmestyspaiva" :> "Marian ilmestyspäivänä"
   @@ "juhannuspaiva" :> "Juhannuspäivänä"
   @@ "mikkelinpaiva" :> "Mikkelinpäivänä"
   @@ "pyhainpaiva" :> "Pyhäinpäivänä"
   @@ "pyhan-henrikin-muistopaiva" :> "Pyhän Henrikin" )

\* The keywords one season key adds.
seasonKeywords(key) ==
    pushIf(key = "loppiaisaika", <<"Loppiaisaikana">>)
 \o pushIf(key = "paastonaika", <<"Paastonajan", "paastonajan">>)
 \o pushIf(key = "paasiaisaika", <<"Pääsiäisaikana">>)
 \o pushIf(key = "jouluaika", <<"jouluaikana">>)

RECURSIVE keywordsOf(_, _)
keywordsOf(seasonKeys, i) ==
    IF i > Len(seasonKeys) THEN <<>>
    ELSE seasonKeywords(seasonKeys[i]) \o keywordsOf(seasonKeys, i + 1)

\* The first refrain, in collection order, whose occasion contains a keyword.
\* The for...of loop throws on a missing collection.
getKertosae(propers, slug, dayData) ==
    LET keywords == pushIf(slug \in DOMAIN occasionMap, <<occasionMap[slug]>>)
                    \o keywordsOf(getSeasonKeys(slug, dayData), 1)
        occasion(refrain) == IF truthyString(refrain.occasion) THEN refrain.occasion[1] ELSE ""
        refrainsOf == IF lacks(propers, "kertosaakeet") THEN <<>> ELSE propers.kertosaakeet
        hits == {i \in 1..Len(refrainsOf) :
                    \E k \in 1..Len(keywords) :
                        includes(occasion(refrainsOf[i]), keywords[k])}
        first == CHOOSE i \in hits : \A k \in hits : i <= k
    IN  IF lacks(propers, "kertosaakeet") THEN TypeError
        ELSE IF hits = {} THEN NULL ELSE refrainsOf[first]

\* The three propers of a day; a TypeError of any of the three calls leaves
\* getPropers before the object is built.
propersObject(prefaatioOf, kyrieLitaniaOf, kertosaeOf) ==
    IF TypeError \in {prefaatioOf, kyrieLitaniaOf, kertosaeOf} THEN TypeError
    ELSE [prefaatio |-> prefaatioOf, kyrieLitania |-> kyrieLitaniaOf, kertosae |-> kertosaeOf]

getPropers(propers, slug, dayData) ==
    propersObject(getPrefaatio(propers, slug, dayData),
                  getKyrieLitania(propers, slug, dayData),
                  getKertosae(propers, slug, dayData))

\* ─── Date resolver ────────────────────────────────────────────────────────

\* generateChurchYear is pure: its value for every start year the model can
\* ask for (MinYear - 1 for the dates of MinYear before Advent).
churchYears == [Y \in (MinYear - 1)..MaxYear |-> generateChurchYear(Y)]

\* The start years getCalendar calls generateChurchYear for: the call is made
\* under the same test, if (!calendarCache.has(churchYearStart)).
generations(cache, churchYearStart) ==
    IF churchYearStart \in DOMAIN cache THEN <<>> ELSE <<churchYearStart>>

\* Seeded fault: a cache of one entry, a miss evicts what was cached.
populatedEvicting(cache, churchYearStart) ==
    IF churchYearStart \in DOMAIN cache THEN cache
    ELSE (churchYearStart :> churchYears[churchYearStart])

\* if (!calendarCache.has(churchYearStart)) calendarCache.set(churchYearStart, ...)
populated(cache, churchYearStart) ==
    IF churchYearStart \in DOMAIN cache THEN cache
    ELSE (churchYearStart :> churchYears[churchYearStart]) @@ cache

\* return calendarCache.get(churchYearStart), with the cache as it is by then
cached(cache, churchYearStart) == [cache |-> cache, calendar |-> cache[churchYearStart]]

\* Seeded fault: the calendar of the latest cached year is returned.
getCalendarOfLatest(cache, churchYearStart) ==
    cached(populated(cache, churchYearStart),
           CHOOSE Y \in DOMAIN populated(cache, churchYearStart) :
               \A Z \in DOMAIN populated(cache, churchYearStart) : Z <= Y)

getCalendar(cache, churchYearStart) ==
    cached(populated(cache, churchYearStart), churchYearStart)

\* String(yearCycle): the key of data.yearCycles
cycleKey(yearCycle) == <<"1", "2", "3">>[yearCycle]

\* Seeded fault: the test for a missing text dropped (&& !reading.text).
resolveCrossReferenceAlways(data, rd, key) ==
    IF /\ rd # NULL
       /\ rd.reference # NULL
       /\ includes(rd.reference[1], "ks.")
    THEN LET cycle1 == IF "1" \in DOMAIN data.yearCycles
                       THEN data.yearCycles["1"] ELSE NULL
         IN  IF cycle1 # NULL /\ cycle1[key] # NULL /\ truthyString(cycle1[key].text)
             THEN [crossReference |-> "Teksti sama kuin 1. vuosikerta"]
                  @@ [rd EXCEPT !.text = cycle1[key].text,
                                !.bookIntro = cycle1[key].bookIntro]
             ELSE rd
    ELSE rd

\* The cross-reference step for one of firstReading, secondReading, gospel.
resolveCrossReference(data, rd, key) ==
    IF /\ rd # NULL
       /\ rd.reference # NULL
       /\ includes(rd.reference[1], "ks.")
       /\ ~truthyString(rd.text)
    THEN LET cycle1 == IF "1" \in DOMAIN data.yearCycles
                       THEN data.yearCycles["1"] ELSE NULL
         IN  IF cycle1 # NULL /\ cycle1[key] # NULL /\ truthyString(cycle1[key].text)
             THEN [crossReference |-> "Teksti sama kuin 1. vuosikerta"]
                  @@ [rd EXCEPT !.text = cycle1[key].text,
                                !.bookIntro = cycle1[key].bookIntro]
             ELSE rd
    ELSE rd

\* if (data?.f) result.f = data.f
copied(data, f) == IF truthy(field(data, f)) THEN f :> data[f] ELSE <<>>

\* Seeded fault: the propers attached only when a preface ending was found.
attachPropersOnPrefaatio(propers) ==
    IF truthy(propers.prefaatio) THEN [propers |-> propers] ELSE <<>>

\* if (propers.prefaatio || propers.kyrieLitania || propers.kertosae)
\*     result.propers = propers
attachPropers(propers) ==
    IF truthy(propers.prefaatio) \/ truthy(propers.kyrieLitania)
       \/ truthy(propers.kertosae)
    THEN [propers |-> propers] ELSE <<>>

enrichEntry(entry, yearCycle, days, propersRecord) ==
    LET data == getDayData(days, entry.slug)
        result == [slug |-> entry.slug, date |-> entry.dateStr, type |-> entry.type,
                   liturgicalColor |-> orNull(field(data, "liturgicalColor")),
                   description     |-> orNull(field(data, "description")),
                   latinName       |-> orNull(field(data, "latinName"))]
        cycleData == IF cycleKey(yearCycle) \in DOMAIN data.yearCycles
                     THEN data.yearCycles[cycleKey(yearCycle)] ELSE NULL
        texts ==
            IF truthy(field(data, "yearCycles"))
            THEN (IF truthy(cycleData)
                  THEN [texts |->
                          [yearCycle |-> yearCycle,
                           firstReading  |-> resolveCrossReference(data,
                                                 cycleData.firstReading, "firstReading"),
                           secondReading |-> resolveCrossReference(data,
                                                 cycleData.secondReading, "secondReading"),
                           gospel        |-> resolveCrossReference(data,
                                                 cycleData.gospel, "gospel")]]
                  ELSE <<>>)
                 @@ [allYearCycles |-> data.yearCycles]
            ELSE IF truthy(field(data, "weekdayTexts"))
            THEN [texts |-> data.weekdayTexts]
            ELSE <<>>
    IN  result @@ texts @@ copied(data, "psalm") @@ copied(data, "hallelujah")
        @@ copied(data, "psalmVerse") @@ copied(data, "prayers") @@ copied(data, "hymns")
        @@ attachPropers(getPropers(propersRecord, entry.slug, data))

\* priority[type] || 9
priority(type) ==
    CASE type = "feast"   -> 1
      [] type = "special" -> 2
      [] type = "sunday"  -> 3
      [] type = "weekday" -> 4
      [] type = "service" -> 5
      [] OTHER -> 9

\* Seeded fault: the comparator reversed (b - a).
prioritizeEntriesReversed(entries) ==
    arraySort(entries, [i \in 1..Len(entries) |-> -priority(entries[i].type)] \o <<>>)

prioritizeEntries(entries) ==
    arraySort(entries, [i \in 1..Len(entries) |-> priority(entries[i].type)] \o <<>>)

\* Seeded fault: the type filter forgotten, any entry counts.
findPrecedingEntry(calendar, date) ==
    LET candidates == {i \in 1..Len(calendar) : calendar[i].date <= date}
        best == CHOOSE i \in candidates :
                    \A j \in candidates :
                        \/ calendar[j].date < calendar[i].date
                        \/ (calendar[j].date = calendar[i].date /\ i <= j)
    IN  IF candidates = {} THEN NULL ELSE calendar[best]

\* Seeded fault: best is never replaced, the first qualifying entry stays.
findPrecedingSundayFirst(calendar, date) ==
    LET candidates == {i \in 1..Len(calendar) :
                          /\ (calendar[i].type = "sunday" \/ calendar[i].type = "feast")
                          /\ calendar[i].date <= date}
        best == CHOOSE i \in candidates : \A j \in candidates : i <= j
    IN  IF candidates = {} THEN NULL ELSE calendar[best]

\* let best = null; for (const entry of calendar)
\*     if ((entry.type === 'sunday' || entry.type === 'feast') && entry.date <= date)
\*         if (!best || entry.date > best.date) best = entry
\* The scan keeps the first of the qualifying entries with the greatest date:
\* a later entry replaces best only when its date is strictly greater.
findPrecedingSunday(calendar, date) ==
    LET candidates == {i \in 1..Len(calendar) :
                          /\ (calendar[i].type = "sunday" \/ calendar[i].type = "feast")
                          /\ calendar[i].date <= date}
        best == CHOOSE i \in candidates :
                    \A j \in candidates :
                        \/ calendar[j].date < calendar[i].date
                        \/ (calendar[j].date = calendar[i].date /\ i <= j)
    IN  IF candidates = {} THEN NULL ELSE calendar[best]

getSeason(entry, days) ==
    LET data == getDayData(days, entry.slug)
        slug == entry.slug
    IN  IF truthyString(field(data, "season")) THEN data.season
        ELSE IF includes(slug, "adventti") \/ includes(slug, "advent") THEN Some("Joulujakso")
        ELSE IF includes(slug, "joulu") \/ includes(slug, "christmas") THEN Some("Joulujakso")
        ELSE IF includes(slug, "loppiai") THEN Some("Joulujakso")
        ELSE IF includes(slug, "paasto") \/ includes(slug, "laskiai") THEN Some("Paasiaisjakso")
        ELSE IF \/ includes(slug, "hiljai") \/ includes(slug, "kiiras")
                \/ includes(slug, "pitkap") \/ includes(slug, "palmu") THEN Some("Paasiaisjakso")
        ELSE IF includes(slug, "paasiai") THEN Some("Paasiaisjakso")
        ELSE IF \/ includes(slug, "helluntai") \/ includes(slug, "kolminai")
                \/ includes(slug, "helatorstai") THEN Some("Helluntaijakso")
        ELSE IF includes(slug, "shel") \/ includes(slug, "helluntaista") THEN Some("Helluntaijakso")
        ELSE NULL

getDayOfWeekFi(date) ==
    <<"sunnuntai", "maanantai", "tiistai", "keskiviikko",
      "torstai", "perjantai", "lauantai">>[dayOfWeek(date) + 1]

\* { start, label: `${start}–${start + 1}`, yearCycle }
churchYearOf(churchYearStart) ==
    [start |-> churchYearStart, label |-> <<churchYearStart, churchYearStart + 1>>,
     yearCycle |-> getYearCycle(churchYearStart)]

\* The value resolveDate returns for a date, given the calendar of its church
\* year.
resolveInCalendar(calendar, date, days, propersRecord) ==
    LET dateStr == formatDate(date)
        churchYearStart == getChurchYearStart(date)
        yearCycle == getYearCycle(churchYearStart)
        matches   == SelectSeq(calendar, LAMBDA e : e.dateStr = dateStr)
        precedingSunday == findPrecedingSunday(calendar, date)
        prioritized == prioritizeEntries(matches)
        primary == prioritized[1]
    IN  IF Len(matches) = 0
        THEN [date |-> dateStr,
              churchYear |-> churchYearOf(churchYearStart),
              holyDay |-> NULL,
              precedingSunday |-> IF precedingSunday # NULL
                                  THEN enrichEntry(precedingSunday, yearCycle, days,
                                                   propersRecord)
                                  ELSE NULL,
              dayOfWeek |-> getDayOfWeekFi(date),
              season |-> IF precedingSunday # NULL
                         THEN getSeason(precedingSunday, days) ELSE NULL]
        ELSE [date |-> dateStr,
              churchYear |-> churchYearOf(churchYearStart),
              holyDay |-> enrichEntry(primary, yearCycle, days, propersRecord),
              additionalServices |->
                  [i \in 1..(Len(prioritized) - 1) |->
                      enrichEntry(prioritized[i + 1], yearCycle, days, propersRecord)]
                  \o <<>>,
              dayOfWeek |-> getDayOfWeekFi(date),
              season |-> getSeason(primary, days)]

\* The cache after getCalendar and the value resolved in the calendar it gave.
resolveWith(got, date, days, propersRecord) ==
    [cache |-> got.cache,
     value |-> resolveInCalendar(got.calendar, date, days, propersRecord)]

\* resolveDate(date) for a 'YYYY-MM-DD' string, on the loaded day map and
\* propers.  Gives the cache after the call (getCalendar) and the value returned.
resolveDate(str, cache, days, propersRecord) ==
    resolveWith(getCalendar(cache, getChurchYearStart(parseDate(str))),
                parseDate(str), days, propersRecord)

\* The value getChurchYearCalendar returns, and the cache after getCalendar.
calendarOf(got, startYear) ==
    [cache |-> got.cache,
     value |->
        [churchYear |-> churchYearOf(startYear),
         entries |-> [i \in 1..Len(got.calendar) |->
                         [date |-> got.calendar[i].dateStr, slug |-> got.calendar[i].slug,
                          type |-> got.calendar[i].type]] \o <<>>]]

\* getChurchYearCalendar(startYear): the cache after the call and the value.
getChurchYearCalendar(startYear, cache) ==
    calendarOf(getCalendar(cache, startYear), startYear)

\* ─── Operations ───────────────────────────────────────────────────────────

call(op, arg) == [op |-> op, arg |-> arg]

\* loadData(): if (allDaysData) return; read and index all-days.json
loadedAllDays == IF allDaysData # NULL THEN allDaysData ELSE Some(dayFiles[dataFile])
loadedBySlug  == IF allDaysData # NULL THEN daysBySlug ELSE Some(slugMap(dayFiles[dataFile]))

\* loadPropers(): if (propersData) return propersData; read propers.json
loadPropers == IF propersData # NULL THEN propersData ELSE Some(propersFiles[dataFile])

ResolveDate ==
    /\ pc = "ready" /\ req.op = "resolveDate"
    /\ \E out \in {resolveDate(req.arg, calendarCache, loadedBySlug[1], loadPropers[1])} :
           /\ calendarCache' = out.cache
           /\ ret' = out.value
           /\ log' = Append(log, [op |-> req.op, arg |-> req.arg,
                                  hit |-> DOMAIN out.cache = DOMAIN calendarCache,
                                  generated |-> generations(calendarCache,
                                      getChurchYearStart(parseDate(req.arg))),
                                  ret |-> out.value])
    /\ allDaysData' = loadedAllDays
    /\ daysBySlug' = loadedBySlug
    /\ propersData' = loadPropers
    /\ pc' = "done"
    /\ UNCHANGED <<req, dataFile>>

GetChurchYearCalendar ==
    /\ pc = "ready" /\ req.op = "getChurchYearCalendar"
    /\ \E out \in {getChurchYearCalendar(req.arg, calendarCache)} :
           /\ calendarCache' = out.cache
           /\ ret' = out.value
           /\ log' = Append(log, [op |-> req.op, arg |-> req.arg,
                                  hit |-> DOMAIN out.cache = DOMAIN calendarCache,
                                  generated |-> generations(calendarCache, req.arg),
                                  ret |-> NULL])
    /\ pc' = "done"
    /\ UNCHANGED <<req, dataFile, allDaysData, daysBySlug, propersData>>

\* The exported pure functions of the computus service.
Pure(op, value) ==
    /\ pc = "ready" /\ req.op = op
    /\ ret' = value
    /\ pc' = "done"
    /\ UNCHANGED <<req, calendarCache, dataFile, allDaysData, daysBySlug, propersData, log>>

GetChurchYearStart == Pure("getChurchYearStart", getChurchYearStart(req.arg))
EasterSunday       == Pure("easterSunday", easterSunday(req.arg))
GetYearCycle       == Pure("getYearCycle", getYearCycle(req.arg))
GenerateChurchYear == Pure("generateChurchYear", churchYears[req.arg])

\* The exported functions of the propers service, called with a slug and the
\* day record the caller looked up for it: each loads propers.json first.
PropersCall(op, value) ==
    /\ pc = "ready" /\ req.op = op
    /\ ret' = value
    /\ propersData' = loadPropers
    /\ pc' = "done"
    /\ UNCHANGED <<req, calendarCache, dataFile, allDaysData, daysBySlug, log>>

GetPrefaatio ==
    PropersCall("getPrefaatio", getPrefaatio(loadPropers[1], req.arg.slug, req.arg.dayData))
GetKyrieLitania ==
    PropersCall("getKyrieLitania", getKyrieLitania(loadPropers[1], req.arg.slug, req.arg.dayData))
GetKertosae ==
    PropersCall("getKertosae", getKertosae(loadPropers[1], req.arg.slug, req.arg.dayData))
GetPropers ==
    PropersCall("getPropers", getPropers(loadPropers[1], req.arg.slug, req.arg.dayData))

\* ─── Specifications ───────────────────────────────────────────────────────

\* The state of a fresh process with the call r pending.
Fresh(r) ==
    /\ pc = "ready" /\ req = r /\ ret = NULL
    /\ calendarCache = <<>>
    /\ allDaysData = NULL /\ daysBySlug = NULL /\ propersData = NULL
    /\ log = <<>>

allYears == MinYear..MaxYear
allDates == makeDate(MinYear, 1, 1)..makeDate(MaxYear, 12, 31)

\* Computus: one call of a pure date function, over the whole supported range.
InitComputus ==
    /\ dataFile = 1
    /\ \/ \E d \in allDates : Fresh(call("getChurchYearStart", d))
       \/ \E Y \in allYears : Fresh(call("easterSunday", Y))
       \/ \E Y \in allYears : Fresh(call("getYearCycle", Y))
NextComputus == GetChurchYearStart \/ EasterSunday \/ GetYearCycle
SpecComputus == InitComputus /\ [][NextComputus]_vars

\* Generator: one call of generateChurchYear, for every start year.
InitGenerate ==
    /\ dataFile = 1
    /\ \E Y \in allYears : Fresh(call("generateChurchYear", Y))
NextGenerate == GenerateChurchYear
SpecGenerate == InitGenerate /\ [][NextGenerate]_vars

\* Resolver: one call of resolveDate in a fresh process, for every date.
InitResolve ==
    /\ dataFile \in 1..Len(dayFiles)
    /\ \E d \in allDates : Fresh(call("resolveDate", formatDate(d)))
NextResolve == ResolveDate
SpecResolve == InitResolve /\ [][NextResolve]_vars

\* The slugs generateChurchYear emits, over all start years.
generatedSlugs == UNION {{e.slug : e \in Range(churchYears[Y])} : Y \in allYears}

\* Propers: one call of a propers function in a fresh process, for every
\* generated slug, with the day record of the slug (null when the file has
\* none) as the routes pass it, and for every propers.json.
InitPropers ==
    /\ dataFile \in 1..Len(propersFiles)
    /\ \E slug \in generatedSlugs, days \in Range(dayFiles),
          op \in {"getPrefaatio", "getKyrieLitania", "getKertosae", "getPropers"} :
           Fresh(call(op, [slug |-> slug, dayData |-> getDayData(slugMap(days), slug)]))
NextPropers == GetPrefaatio \/ GetKyrieLitania \/ GetKertosae \/ GetPropers
SpecPropers == InitPropers /\ [][NextPropers]_vars

\* The service: up to MaxCalls calls of resolveDate and getChurchYearCalendar
\* in any order, for the dates within WindowDays of the 1st Advent Sunday of
\* WindowYear (both church years meet there) and the two start years.
WindowYear == 2026
WindowDays == 2

windowDates ==
    LET advent1 == nearestSunday(makeDate(WindowYear, 11, 30))
    IN  {formatDate(d) : d \in (advent1 - WindowDays)..(advent1 + WindowDays)}

requests ==
    {call("resolveDate", d) : d \in windowDates}
    \cup {call("getChurchYearCalendar", Y) : Y \in {WindowYear - 1, WindowYear}}

Init ==
    /\ pc = "idle" /\ req = call("none", NULL) /\ ret = NULL
    /\ calendarCache = <<>>
    /\ dataFile \in 1..Len(dayFiles)
    /\ allDaysData = NULL /\ daysBySlug = NULL /\ propersData = NULL
    /\ log = <<>>

Request ==
    /\ pc \in {"idle", "done"}
    /\ Len(log) < MaxCalls
    /\ \E r \in requests : req' = r
    /\ pc' = "ready"
    /\ UNCHANGED <<ret, calendarCache, dataFile, allDaysData, daysBySlug, propersData, log>>

Next == Request \/ ResolveDate \/ GetChurchYearCalendar

Spec == Init /\ [][Next]_vars

\* ─── Properties ───────────────────────────────────────────────────────────

returned(op) == pc = "done" /\ req.op = op

\* The Sunday nearest to 30 November of a year, found by search: the one
\* Sunday among the seven days from 27 November to 3 December.
FirstAdvent(Y) ==
    CHOOSE s \in (makeDate(Y, 11, 30) - 3)..(makeDate(Y, 11, 30) + 3) : (s + 4) % 7 = 0

\* The indices of the entries of a calendar that carry a slug.
entriesOf(calendar, slug) == {i \in 1..Len(calendar) : calendar[i].slug = slug}

\* Exactly one entry of the calendar carries the slug, and it is dated date.
OnceOn(calendar, slug, date) ==
    /\ Cardinality(entriesOf(calendar, slug)) = 1
    /\ \A i \in entriesOf(calendar, slug) :
           calendar[i].date = date /\ calendar[i].dateStr = civil(date)

\* C1: getChurchYearStart(d) is the unique year Y whose 1st Advent Sunday
\* (the Sunday nearest 30 November of Y) is on or before d while the 1st
\* Advent Sunday of Y + 1 is after d: the 1st Advent Sunday itself starts the
\* new church year and the day before it still belongs to the previous one.
C1_ChurchYearStart ==
    returned("getChurchYearStart") =>
        LET d    == req.arg
            year == civil(d)[1]
        IN  /\ FirstAdvent(ret) <= d /\ d < FirstAdvent(ret + 1)
            /\ \A Z \in (year - 2)..(year + 2) :
                   (FirstAdvent(Z) <= d /\ d < FirstAdvent(Z + 1)) => Z = ret
            /\ d = FirstAdvent(year) => ret = year
            /\ d = FirstAdvent(year) - 1 => ret = year - 1

C1_Witness ==
    /\ returned("getChurchYearStart")
    /\ req.arg = FirstAdvent(2025) - 1
    /\ civil(req.arg) = <<2025, 11, 29>>
    /\ ret = 2024

\* C6: easterSunday gives the Gregorian Easter Sunday of the years 2020 to
\* 2030 as 12 April 2020, 4 April 2021, 17 April 2022, 9 April 2023,
\* 31 March 2024, 20 April 2025, 5 April 2026, 28 March 2027, 16 April 2028,
\* 1 April 2029 and 21 April 2030.
C6_EasterTable ==
    returned("easterSunday") =>
        /\ req.arg = 2020 => formatDate(ret) = <<2020, 4, 12>>
        /\ req.arg = 2021 => formatDate(ret) = <<2021, 4, 4>>
        /\ req.arg = 2022 => formatDate(ret) = <<2022, 4, 17>>
        /\ req.arg = 2023 => formatDate(ret) = <<2023, 4, 9>>
        /\ req.arg = 2024 => formatDate(ret) = <<2024, 3, 31>>
        /\ req.arg = 2025 => formatDate(ret) = <<2025, 4, 20>>
        /\ req.arg = 2026 => formatDate(ret) = <<2026, 4, 5>>
        /\ req.arg = 2027 => formatDate(ret) = <<2027, 3, 28>>
        /\ req.arg = 2028 => formatDate(ret) = <<2028, 4, 16>>
        /\ req.arg = 2029 => formatDate(ret) = <<2029, 4, 1>>
        /\ req.arg = 2030 => formatDate(ret) = <<2030, 4, 21>>

C6_Witness ==
    /\ returned("easterSunday")
    /\ req.arg = 2027
    /\ formatDate(ret) = <<2027, 3, 28>>

\* C10: getYearCycle(Y) is (Y mod 3) + 1; it has period 3, any three
\* consecutive start years cover the cycles 1, 2 and 3, and the start years
\* 2024, 2025 and 2026 are of cycle 3, 1 and 2.
C10_YearCycle ==
    returned("getYearCycle") =>
        LET Y == req.arg
        IN  /\ ret = (Y % 3) + 1
            /\ ret \in {1, 2, 3}
            /\ getYearCycle(Y + 3) = ret
            /\ {ret, getYearCycle(Y + 1), getYearCycle(Y + 2)} = {1, 2, 3}
            /\ Y = 2024 => ret = 3
            /\ Y = 2025 => ret = 1
            /\ Y = 2026 => ret = 2

C10_Witness ==
    /\ returned("getYearCycle")
    /\ req.arg = 2026
    /\ ret = 2

\* C5: every entry of generateChurchYear(Y) is dated on or after the 1st
\* Advent Sunday of Y and before the 1st Advent Sunday of Y + 1, so that
\* getChurchYearStart of the entry's date is Y.
C5_EntriesWithinChurchYear ==
    returned("generateChurchYear") =>
        \A i \in 1..Len(ret) :
            /\ FirstAdvent(req.arg) <= ret[i].date
            /\ ret[i].date < FirstAdvent(req.arg + 1)
            /\ getChurchYearStart(ret[i].date) = req.arg

\* C7: generateChurchYear(Y) has exactly one 1-adventtisunnuntai entry, on
\* the Sunday nearest 30 November of Y, and exactly one joulupaiva entry, on
\* 25 December of Y.
C7_AdventAndChristmas ==
    returned("generateChurchYear") =>
        /\ OnceOn(ret, "1-adventtisunnuntai", FirstAdvent(req.arg))
        /\ OnceOn(ret, "joulupaiva", makeDate(req.arg, 12, 25))
        /\ \A i \in entriesOf(ret, "joulupaiva") : ret[i].dateStr = <<req.arg, 12, 25>>

C7_Witness ==
    /\ returned("generateChurchYear")
    /\ req.arg = 2026
    /\ \E i \in 1..Len(ret) :
           ret[i].slug = "1-adventtisunnuntai" /\ ret[i].dateStr = <<2026, 11, 29>>
    /\ \E i \in 1..Len(ret) :
           ret[i].slug = "joulupaiva" /\ ret[i].dateStr = <<2026, 12, 25>>

\* C8: with E the Easter Sunday of the year Y + 1, generateChurchYear(Y) has
\* exactly one paasiaispaiva entry on E, exactly one helatorstai entry on
\* E + 39 days and exactly one helluntaipaiva entry on E + 49 days.
C8_EasterAscensionPentecost ==
    returned("generateChurchYear") =>
        LET E == easterSunday(req.arg + 1)
        IN  /\ civil(E)[1] = req.arg + 1
            /\ OnceOn(ret, "paasiaispaiva", E)
            /\ OnceOn(ret, "helatorstai", E + 39)
            /\ OnceOn(ret, "helluntaipaiva", E + 49)

C8_Witness ==
    /\ returned("generateChurchYear")
    /\ req.arg = 2025
    /\ \E i \in 1..Len(ret) :
           ret[i].slug = "paasiaispaiva" /\ ret[i].dateStr = <<2026, 4, 5>>
    /\ \E i \in 1..Len(ret) :
           ret[i].slug = "helatorstai" /\ ret[i].dateStr = <<2026, 5, 14>>
    /\ \E i \in 1..Len(ret) :
           ret[i].slug = "helluntaipaiva" /\ ret[i].dateStr = <<2026, 5, 24>>

\* C9: generateChurchYear(Y) has exactly one tuomiosunnuntai entry, 7 days
\* before the 1st Advent Sunday of Y + 1, and exactly one valvomisen-sunnuntai
\* entry, 14 days before it.
C9_LastSundays ==
    returned("generateChurchYear") =>
        /\ OnceOn(ret, "tuomiosunnuntai", FirstAdvent(req.arg + 1) - 7)
        /\ OnceOn(ret, "valvomisen-sunnuntai", FirstAdvent(req.arg + 1) - 14)

C9_Witness ==
    /\ returned("generateChurchYear")
    /\ req.arg = 2025
    /\ \E i \in 1..Len(ret) :
           ret[i].slug = "tuomiosunnuntai" /\ ret[i].dateStr = <<2026, 11, 22>>
    /\ \E i \in 1..Len(ret) :
           ret[i].slug = "valvomisen-sunnuntai" /\ ret[i].dateStr = <<2026, 11, 15>>

\* The calendar of the church year a 'YYYY-MM-DD' date falls in, found from
\* the 1st Advent Sundays on either side of it.
calendarFor(str) ==
    LET d == makeDate(str[1], str[2], str[3])
        Y == CHOOSE Z \in {str[1] - 1, str[1]} :
                 FirstAdvent(Z) <= d /\ d < FirstAdvent(Z + 1)
    IN  churchYears[Y]

entriesOn(str) == SelectSeq(calendarFor(str), LAMBDA e : e.dateStr = str)

\* The documented precedence of the entry types.
typeRank == [feast |-> 1, special |-> 2, sunday |-> 3, weekday |-> 4, service |-> 5]

\* The entries of a date, the types in order of precedence, each type's
\* entries in the order the generator's calendar has them.
byPrecedence(entries) ==
    SelectSeq(entries, LAMBDA e : typeRank[e.type] = 1)
    \o SelectSeq(entries, LAMBDA e : typeRank[e.type] = 2)
    \o SelectSeq(entries, LAMBDA e : typeRank[e.type] = 3)
    \o SelectSeq(entries, LAMBDA e : typeRank[e.type] = 4)
    \o SelectSeq(entries, LAMBDA e : typeRank[e.type] = 5)

\* C2: on a date with calendar entries, resolveDate gives as holyDay followed
\* by additionalServices exactly the date's entries ordered by type (feast,
\* special, sunday, weekday, service), entries of one type in generator
\* order; on Good Friday that is pitkaperjantai, then jeesuksen-kuolinhetki
\* and pitkaperjantain-ilta.
C2_HolyDayPrecedence ==
    (returned("resolveDate") /\ entriesOn(req.arg) # <<>>) =>
        /\ ret.holyDay # NULL
        /\ LET served   == <<ret.holyDay>> \o ret.additionalServices
               expected == byPrecedence(entriesOn(req.arg))
           IN  /\ Len(served) = Len(expected)
               /\ \A i \in 1..Len(expected) :
                      /\ served[i].slug = expected[i].slug
                      /\ served[i].type = expected[i].type
                      /\ served[i].date = req.arg
               /\ \A i, j \in 1..Len(served) :
                      i < j => typeRank[served[i].type] <= typeRank[served[j].type]
               /\ makeDate(req.arg[1], req.arg[2], req.arg[3])
                      = easterSunday(req.arg[1]) - 2
                  => [i \in 1..Len(served) |-> served[i].slug]
                         = <<"pitkaperjantai", "jeesuksen-kuolinhetki",
                             "pitkaperjantain-ilta">>

C2_Witness ==
    /\ returned("resolveDate")
    /\ req.arg = <<2026, 4, 3>>
    /\ ret.holyDay # NULL
    /\ ret.holyDay.slug = "pitkaperjantai" /\ ret.holyDay.type = "feast"
    /\ Len(ret.additionalServices) = 2
    /\ ret.additionalServices[1].slug = "jeesuksen-kuolinhetki"
    /\ ret.additionalServices[2].slug = "pitkaperjantain-ilta"

\* C3: on a date with no calendar entry, resolveDate gives holyDay null and
\* as precedingSunday an entry of type sunday or feast of the date's church
\* year, dated on or before the date, than which no other such entry is later.
C3_PrecedingSunday ==
    (returned("resolveDate") /\ entriesOn(req.arg) = <<>>) =>
        /\ ret.holyDay = NULL
        /\ ret.precedingSunday # NULL
        /\ LET d   == makeDate(req.arg[1], req.arg[2], req.arg[3])
               cal == calendarFor(req.arg)
               candidates == {i \in 1..Len(cal) :
                                 cal[i].type \in {"sunday", "feast"} /\ cal[i].date <= d}
           IN  /\ ret.precedingSunday.type \in {"sunday", "feast"}
               /\ \E i \in candidates :
                      /\ cal[i].slug = ret.precedingSunday.slug
                      /\ cal[i].type = ret.precedingSunday.type
                      /\ cal[i].dateStr = ret.precedingSunday.date
                      /\ \A j \in candidates : cal[j].date <= cal[i].date

C3_Witness ==
    /\ returned("resolveDate")
    /\ req.arg = <<2026, 2, 3>>
    /\ ret.holyDay = NULL
    /\ ret.precedingSunday # NULL
    /\ ret.precedingSunday.slug = "3-sunnuntai-ennen-paastonaikaa"
    /\ ret.precedingSunday.date = <<2026, 2, 1>>

\* What resolveDate returns for a date in a process that has served no call.
firstAnswer(str) ==
    resolveDate(str, <<>>, slugMap(dayFiles[dataFile]), propersFiles[dataFile]).value

\* C4: resolveDate is referentially transparent: two calls for the same date
\* return the same value, whether the church year's calendar was generated by
\* the call or found in the cache, and whatever was called in between; the
\* value is the one a process that has served no call returns.
C4_SameDateSameResult ==
    /\ \A i, j \in 1..Len(log) :
           (/\ log[i].op = "resolveDate" /\ log[j].op = "resolveDate"
            /\ log[i].arg = log[j].arg)
           => log[i].ret = log[j].ret
    /\ \A i \in 1..Len(log) :
           log[i].op = "resolveDate" => log[i].ret = firstAnswer(log[i].arg)

C4_Witness ==
    /\ Len(log) = 3
    /\ log[1].op = "resolveDate" /\ ~log[1].hit
    /\ log[2].op = "getChurchYearCalendar" /\ ~log[2].hit
    /\ log[3].op = "resolveDate" /\ log[3].hit
    /\ log[3].arg = log[1].arg
    /\ log[3].ret = log[1].ret

\* What resolveDate returns for the day before a 'YYYY-MM-DD' date.
dayBefore(str) == firstAnswer(formatDate(parseDate(str) - 1))

\* The next lectionary cycle, in the order 1 -> 2 -> 3 -> 1.
nextCycle == <<2, 3, 1>>

\* C11: stepping through consecutive dates, churchYear of resolveDate(d) is
\* that of resolveDate(d - 1) unless d is the 1st Advent Sunday of its
\* calendar year; on that day churchYear.start is greater by 1 and
\* churchYear.yearCycle is the next one in the order 1 -> 2 -> 3 -> 1.  On
\* 2025-11-30 holyDay is 1-adventtisunnuntai and the cycle is 1.
C11_ChurchYearAdvancesAtAdvent ==
    returned("resolveDate") =>
        LET d    == makeDate(req.arg[1], req.arg[2], req.arg[3])
            prev == dayBefore(req.arg).churchYear
        IN  /\ d # FirstAdvent(req.arg[1]) => ret.churchYear = prev
            /\ d = FirstAdvent(req.arg[1]) =>
                   /\ ret.churchYear.start = prev.start + 1
                   /\ ret.churchYear.start = req.arg[1]
                   /\ ret.churchYear.yearCycle = nextCycle[prev.yearCycle]
            /\ req.arg = <<2025, 11, 30>> =>
                   /\ ret.holyDay # NULL
                   /\ ret.holyDay.slug = "1-adventtisunnuntai"
                   /\ ret.churchYear.yearCycle = 1

C11_Witness ==
    /\ returned("resolveDate")
    /\ req.arg = <<2026, 11, 29>>
    /\ ret.churchYear.start = 2026 /\ ret.churchYear.yearCycle = 2
    /\ dayBefore(req.arg).churchYear.start = 2025
    /\ dayBefore(req.arg).churchYear.yearCycle = 1

\* The entries of a list dated on a day, in the order of the list.
datedOn(entries, date) == SelectSeq(entries, LAMBDA e : e.date = date)

slugsOf(entries) == [i \in 1..Len(entries) |-> entries[i].slug] \o <<>>

\* C12: the list generateChurchYear(Y) returns is in non-decreasing date
\* order; it has as many entries as the generator emitted and the entries of
\* each date are the emitted ones in the order of emission (nothing merged,
\* dropped or reordered within a date): on Good Friday pitkaperjantai,
\* jeesuksen-kuolinhetki, pitkaperjantain-ilta, on Holy Saturday
\* hiljainen-lauantai before paasiaisyo.
C12_SortedStable ==
    returned("generateChurchYear") =>
        LET emitted == generatedEntries(req.arg)
            E       == easterSunday(req.arg + 1)
        IN  /\ \A i, j \in 1..Len(ret) : i < j => ret[i].date <= ret[j].date
            /\ Len(ret) = Len(emitted)
            /\ \A k \in 1..Len(emitted) :
                   datedOn(ret, emitted[k].date) = datedOn(emitted, emitted[k].date)
            /\ slugsOf(datedOn(ret, E - 2))
                   = <<"pitkaperjantai", "jeesuksen-kuolinhetki", "pitkaperjantain-ilta">>
            /\ slugsOf(datedOn(ret, E - 1)) = <<"hiljainen-lauantai", "paasiaisyo">>

C12_Witness ==
    /\ returned("generateChurchYear")
    /\ req.arg = 2025
    /\ \E i \in 1..(Len(ret) - 2) :
           /\ ret[i].dateStr = <<2026, 4, 3>> /\ ret[i].slug = "pitkaperjantai"
           /\ ret[i + 1].dateStr = <<2026, 4, 3>> /\ ret[i + 1].slug = "jeesuksen-kuolinhetki"
           /\ ret[i + 2].dateStr = <<2026, 4, 3>> /\ ret[i + 2].slug = "pitkaperjantain-ilta"
    /\ \E i, j \in 1..Len(generatedEntries(2025)) :
           i < j /\ generatedEntries(2025)[i].date > generatedEntries(2025)[j].date

\* The start years generateChurchYear has been called for, call by call.
generatedBy(i) == Range(log[i].generated)

\* C13: over any sequence of resolveDate and getChurchYearCalendar calls the
\* calendar cache only grows (a cached key stays, with the list it had),
\* generateChurchYear is called at most once for a start year (and for
\* exactly the cached years), and the list cached for a start year Y equals
\* generateChurchYear(Y).
C13_CacheOnlyGrows ==
    /\ [](\A Y \in DOMAIN calendarCache : calendarCache[Y] = generateChurchYear(Y))
    /\ [](\A i, j \in 1..Len(log) : i < j => generatedBy(i) \cap generatedBy(j) = {})
    /\ [](DOMAIN calendarCache = UNION {generatedBy(i) : i \in 1..Len(log)})
    /\ [][\A Y \in DOMAIN calendarCache :
              Y \in DOMAIN calendarCache' /\ calendarCache'[Y] = calendarCache[Y]]_vars

C13_Witness ==
    /\ Len(log) = 3
    /\ log[1].op = "getChurchYearCalendar" /\ log[1].generated = <<WindowYear>>
    /\ log[2].op = "resolveDate" /\ log[2].generated = <<WindowYear - 1>>
    /\ log[3].op = "resolveDate" /\ log[3].generated = <<>>
    /\ DOMAIN calendarCache = {WindowYear - 1, WindowYear}

\* The enriched entries of a ResolvedDay: holyDay and additionalServices, or
\* precedingSunday.
enrichedOf(resolved) ==
    IF resolved.holyDay # NULL
    THEN <<resolved.holyDay>> \o resolved.additionalServices
    ELSE IF resolved.precedingSunday # NULL THEN <<resolved.precedingSunday>>
    ELSE <<>>

\* The fields of a ResolvedDay, with and without a holy day on the date.
resolvedDayFields ==
    { {"date", "churchYear", "holyDay", "additionalServices", "dayOfWeek", "season"},
      {"date", "churchYear", "holyDay", "precedingSunday", "dayOfWeek", "season"} }

\* C14: a miss raises no error.  For every date of 1900-2100 and every record
\* map, also one with no record for a generated slug, resolveDate returns a
\* ResolvedDay; an enriched entry whose slug has no record has
\* liturgicalColor, description and latinName null and no texts (nor any
\* other field copied from a record), and getDayData of a slug without a
\* record is null.
C14_MissesGiveNull ==
    returned("resolveDate") =>
        /\ DOMAIN ret \in resolvedDayFields
        /\ ret.date = req.arg
        /\ enrichedOf(ret) # <<>>
        /\ \A i \in 1..Len(enrichedOf(ret)) :
               LET e == enrichedOf(ret)[i]
               IN  e.slug \notin DOMAIN daysBySlug[1] =>
                       /\ getDayData(daysBySlug[1], e.slug) = NULL
                       /\ e.liturgicalColor = NULL
                       /\ e.description = NULL
                       /\ e.latinName = NULL
                       /\ DOMAIN e \subseteq {"slug", "date", "type", "liturgicalColor",
                                               "description", "latinName", "propers"}
        /\ getDayData(daysBySlug[1], "tuntematon-paiva") = NULL

C14_Witness ==
    /\ returned("resolveDate")
    /\ dataFile = 2
    /\ req.arg = <<2026, 4, 5>>
    /\ ret.holyDay # NULL
    /\ ret.holyDay.slug = "paasiaispaiva"
    /\ "paasiaispaiva" \notin DOMAIN daysBySlug[1]
    /\ ret.holyDay.liturgicalColor = NULL
    /\ "texts" \notin DOMAIN ret.holyDay

\* getPropers for the slug of an enriched entry, on the loaded reference data.
propersOf(e) == getPropers(propersData[1], e.slug, getDayData(daysBySlug[1], e.slug))

\* C15 as claimed: every enriched entry resolveDate returns (holyDay,
\* precedingSunday, each of additionalServices) carries a propers field equal
\* to getPropers(slug, record), also when prefaatio, kyrieLitania and kertosae
\* are all null.
C15_PropersOnEveryEntry ==
    returned("resolveDate") =>
        \A i \in 1..Len(enrichedOf(ret)) :
            LET e == enrichedOf(ret)[i]
            IN  "propers" \in DOMAIN e /\ e.propers = propersOf(e)

\* C15 amended: an enriched entry resolveDate returns carries a propers field,
\* equal to getPropers(slug, record), exactly when at least one of prefaatio,
\* kyrieLitania and kertosae is not null; when all three are null the entry
\* has no propers field.
C15_PropersWhenAnyFound ==
    returned("resolveDate") =>
        \A i \in 1..Len(enrichedOf(ret)) :
            LET e == enrichedOf(ret)[i]
                p == propersOf(e)
            IN  IF p.prefaatio # NULL \/ p.kyrieLitania # NULL \/ p.kertosae # NULL
                THEN "propers" \in DOMAIN e /\ e.propers = p
                ELSE "propers" \notin DOMAIN e

C15_Witness ==
    /\ returned("resolveDate")
    /\ dataFile = 2
    /\ req.arg = <<2026, 4, 3>>
    /\ ret.holyDay # NULL
    /\ ret.holyDay.slug = "pitkaperjantai"
    /\ "propers" \in DOMAIN ret.holyDay
    /\ ret.holyDay.propers.prefaatio # NULL
    /\ ret.holyDay.propers.kertosae = NULL
    /\ ret.additionalServices[1].slug = "jeesuksen-kuolinhetki"
    /\ "propers" \notin DOMAIN ret.additionalServices[1]

\* The Sunday among the seven days that start at a date, found by search.
FirstSundayFrom(date) == CHOOSE s \in date..(date + 6) : (s + 4) % 7 = 0

\* C16: with S the first Sunday strictly after 6 January of Y + 1 and L the
\* 3rd Sunday before Lent (Easter - 63 days), generateChurchYear(Y) has the
\* entries k-sunnuntai-loppiaisesta for k = 1..n and no other of them, where
\* 1 <= n <= 6, the k-th is on S + 7(k - 1), each is before L and the n-th
\* is on L - 7: the cap of 6 cuts nothing off and no Sunday is skipped.
C16_EpiphanySundays ==
    returned("generateChurchYear") =>
        LET S == FirstSundayFrom(makeDate(req.arg + 1, 1, 7))
            L == easterSunday(req.arg + 1) - 63
            n == (L - S) \div 7
            slugOf == <<"1-sunnuntai-loppiaisesta", "2-sunnuntai-loppiaisesta",
                        "3-sunnuntai-loppiaisesta", "4-sunnuntai-loppiaisesta",
                        "5-sunnuntai-loppiaisesta", "6-sunnuntai-loppiaisesta">>
        IN  /\ n \in 1..6
            /\ S + 7 * (n - 1) = L - 7
            /\ \A k \in 1..6 :
                   IF k <= n
                   THEN /\ OnceOn(ret, slugOf[k], S + 7 * (k - 1))
                        /\ S + 7 * (k - 1) < L
                        /\ \A i \in entriesOf(ret, slugOf[k]) : ret[i].type = "sunday"
                   ELSE entriesOf(ret, slugOf[k]) = {}
            /\ \A i \in 1..Len(ret) :
                   (ret[i].type = "sunday" /\ S <= ret[i].date /\ ret[i].date < L)
                   => \E k \in 1..n : ret[i].slug = slugOf[k]

C16_Witness ==
    /\ returned("generateChurchYear")
    /\ req.arg = 2037
    /\ formatDate(easterSunday(2038)) = <<2038, 4, 25>>
    /\ \E i \in 1..Len(ret) :
           ret[i].slug = "1-sunnuntai-loppiaisesta" /\ ret[i].dateStr = <<2038, 1, 10>>
    /\ \E i \in 1..Len(ret) :
           ret[i].slug = "6-sunnuntai-loppiaisesta" /\ ret[i].dateStr = <<2038, 2, 14>>
    /\ \E i \in 1..Len(ret) :
           ret[i].slug = "3-sunnuntai-ennen-paastonaikaa" /\ ret[i].dateStr = <<2038, 2, 21>>

\* The slugs the Sundays after Pentecost can carry.
afterPentecostSlugs ==
    {"tuomiosunnuntai", "valvomisen-sunnuntai", "apostolien-paiva",
     "kirkastussunnuntai", "reformaation-paiva"}
    \cup {ToString(i) \o "-sunnuntai-helluntaista" : i \in 2..40}

\* The slug of the Sunday after Pentecost of index i when the last index is
\* last: the end of the year first, then the fixed indices, then the numeral.
afterPentecostSlug(i, last) ==
    IF i = last THEN "tuomiosunnuntai"
    ELSE IF i = last - 1 THEN "valvomisen-sunnuntai"
    ELSE IF i = 6 THEN "apostolien-paiva"
    ELSE IF i = 8 THEN "kirkastussunnuntai"
    ELSE IF i = 22 THEN "reformaation-paiva"
    ELSE ToString(i) \o "-sunnuntai-helluntaista"

\* C17: with P Pentecost (Easter + 49 days) and T the Sunday 7 days before
\* the 1st Advent Sunday of Y + 1, the Sundays after Pentecost of
\* generateChurchYear(Y) are one entry on each P + 7i for i = 2, 3, ... up to
\* the index of T; the entry of index i is tuomiosunnuntai if it is the last,
\* valvomisen-sunnuntai if the second-to-last, otherwise apostolien-paiva,
\* kirkastussunnuntai or reformaation-paiva for i = 6, 8 or 22, otherwise
\* i-sunnuntai-helluntaista; no other entry carries one of these slugs.
C17_SundaysAfterPentecost ==
    returned("generateChurchYear") =>
        LET P    == easterSunday(req.arg + 1) + 49
            T    == FirstAdvent(req.arg + 1) - 7
            last == (T - P) \div 7
            ours == {k \in 1..Len(ret) : ret[k].slug \in afterPentecostSlugs}
        IN  /\ P + 7 * last = T
            /\ last >= 3
            /\ Cardinality(ours) = last - 1
            /\ \A i \in 2..last :
                   \E k \in ours :
                       /\ ret[k].date = P + 7 * i
                       /\ ret[k].slug = afterPentecostSlug(i, last)
                       /\ ret[k].type = "sunday"
            /\ \A k \in 1..Len(ret) :
                   (ret[k].type = "sunday" /\ ret[k].date >= P + 14) => k \in ours

C17_Witness ==
    /\ returned("generateChurchYear")
    /\ req.arg = 2037
    /\ \E k \in 1..Len(ret) :
           ret[k].slug = "21-sunnuntai-helluntaista" /\ ret[k].dateStr = <<2038, 11, 7>>
    /\ \E k \in 1..Len(ret) :
           /\ ret[k].slug = "valvomisen-sunnuntai" /\ ret[k].dateStr = <<2038, 11, 14>>
           /\ ret[k].date = easterSunday(2038) + 49 + 7 * 22
    /\ \E k \in 1..Len(ret) :
           ret[k].slug = "tuomiosunnuntai" /\ ret[k].dateStr = <<2038, 11, 21>>
    /\ entriesOf(ret, "reformaation-paiva") = {}

C19_SundaysAfterChristmas ==
    returned("generateChurchYear") =>
        /\ Cardinality(entriesOf(ret, "1-sunnuntai-joulusta")) <= 1
        /\ Cardinality(entriesOf(ret, "2-sunnuntai-joulusta")) <= 1
        /\ \A i \in entriesOf(ret, "1-sunnuntai-joulusta") :
               /\ (ret[i].date + 4) % 7 = 0
               /\ makeDate(req.arg, 12, 27) <= ret[i].date
               /\ ret[i].date <= makeDate(req.arg + 1, 1, 2)
               /\ ret[i].dateStr = civil(ret[i].date)
        /\ \A i \in entriesOf(ret, "2-sunnuntai-joulusta") :
               /\ (ret[i].date + 4) % 7 = 0
               /\ makeDate(req.arg + 1, 1, 2) <= ret[i].date
               /\ ret[i].date <= makeDate(req.arg + 1, 1, 5)
               /\ ret[i].dateStr = civil(ret[i].date)

C19_Witness ==
    /\ returned("generateChurchYear")
    /\ req.arg = 2025
    /\ \E i \in 1..Len(ret) :
           ret[i].slug = "1-sunnuntai-joulusta" /\ ret[i].dateStr = <<2025, 12, 28>>
    /\ \E i \in 1..Len(ret) :
           ret[i].slug = "2-sunnuntai-joulusta" /\ ret[i].dateStr = <<2026, 1, 4>>

\* The weekday-typed entries of a calendar on a day.
weekdayEntriesOn(calendar, date) ==
    {i \in 1..Len(calendar) : calendar[i].date = date /\ calendar[i].type = "weekday"}

\* The slug of the week that follows the k-th Advent Sunday.
adventWeekSlug(k) == ToString(k) \o "-adventtisunnuntain-jalkeinen-viikko"

\* C20 as claimed: in generateChurchYear(Y) every weekday (Monday-Saturday)
\* after the 1st and before the 4th Advent Sunday has a weekday-typed entry
\* tagged with the slug of its containing week.
C20_AdventWeekdaysTagged ==
    returned("generateChurchYear") =>
        LET advent1 == FirstAdvent(req.arg)
        IN  \A k \in 1..3 : \A d \in 1..6 :
                \E i \in weekdayEntriesOn(ret, advent1 + 7 * (k - 1) + d) :
                    ret[i].slug = adventWeekSlug(k)

\* C20 amended: in generateChurchYear(Y) every weekday (Monday-Saturday)
\* after the 1st and before the 2nd Advent Sunday has exactly one
\* weekday-typed entry, tagged 1-adventtisunnuntain-jalkeinen-viikko; the
\* weekdays after the 2nd and before the 4th Advent Sunday have no
\* weekday-typed entry.
C20_FirstAdventWeekTagged ==
    returned("generateChurchYear") =>
        LET advent1 == FirstAdvent(req.arg)
        IN  /\ \A d \in 1..6 :
                   /\ Cardinality(weekdayEntriesOn(ret, advent1 + d)) = 1
                   /\ \E i \in weekdayEntriesOn(ret, advent1 + d) :
                          /\ ret[i].slug = "1-adventtisunnuntain-jalkeinen-viikko"
                          /\ ret[i].slug = adventWeekSlug(1)
                          /\ ret[i].dateStr = civil(advent1 + d)
            /\ Cardinality(entriesOf(ret, "1-adventtisunnuntain-jalkeinen-viikko")) = 6
            /\ \A k \in 2..3 : \A d \in 1..6 :
                   weekdayEntriesOn(ret, advent1 + 7 * (k - 1) + d) = {}

C20_Witness ==
    /\ returned("generateChurchYear")
    /\ req.arg = 2025
    /\ \E i \in 1..Len(ret) :
           /\ ret[i].slug = "1-adventtisunnuntain-jalkeinen-viikko"
           /\ ret[i].type = "weekday" /\ ret[i].dateStr = <<2025, 12, 6>>
    /\ \E i \in 1..Len(ret) :
           ret[i].slug = "2-adventtisunnuntai" /\ ret[i].dateStr = <<2025, 12, 7>>
    /\ datedOn(ret, makeDate(2025, 12, 8)) = <<>>

\* The references of the reference data that contain "ks.".
crossReferences == {"ks. 1. vuosikerta"}

\* A reading has a text: neither null nor the empty string.
hasText(rd) == rd # NULL /\ rd.text # NULL /\ rd.text # Some("")

\* The reading resolveDate is to return for a stored reading of the active
\* cycle, given the stored year cycles of the slug.
readingExpected(yearCycles, rd, key) ==
    IF /\ rd # NULL /\ rd.reference # NULL
       /\ rd.reference[1] \in crossReferences
       /\ ~hasText(rd)
       /\ "1" \in DOMAIN yearCycles
       /\ hasText(yearCycles["1"][key])
    THEN [reference |-> rd.reference,
          text |-> yearCycles["1"][key].text,
          bookIntro |-> yearCycles["1"][key].bookIntro,
          crossReference |-> "Teksti sama kuin 1. vuosikerta"]
    ELSE rd

\* The record of a slug as all-days.json of the process has it.
storedRecord(slug) == slugMap(dayFiles[dataFile])[slug]

\* C21: in an enriched entry with per-cycle data, each of firstReading,
\* secondReading and gospel of the active year cycle is returned with text
\* and bookIntro of year cycle 1 and a crossReference note if its reference
\* contains "ks.", it has no text and cycle 1 of the slug has a text for that
\* reading; in every other case it is returned as stored.  allYearCycles is
\* the stored yearCycles and the loaded record is left as the file has it.
C21_CrossReference ==
    returned("resolveDate") =>
        \A i \in 1..Len(enrichedOf(ret)) :
            LET e == enrichedOf(ret)[i]
            IN  "allYearCycles" \in DOMAIN e =>
                    LET stored == storedRecord(e.slug).yearCycles
                        active == cycleKey(ret.churchYear.yearCycle)
                    IN  /\ e.allYearCycles = stored
                        /\ daysBySlug[1][e.slug] = storedRecord(e.slug)
                        /\ "texts" \in DOMAIN e <=> active \in DOMAIN stored
                        /\ "texts" \in DOMAIN e =>
                               /\ e.texts.yearCycle = ret.churchYear.yearCycle
                               /\ \A key \in {"firstReading", "secondReading", "gospel"} :
                                      e.texts[key] =
                                          readingExpected(stored, stored[active][key], key)

C21_Witness ==
    /\ returned("resolveDate")
    /\ dataFile = 2
    /\ req.arg = <<2028, 4, 14>>
    /\ ret.churchYear.yearCycle = 3
    /\ ret.holyDay # NULL
    /\ ret.holyDay.slug = "pitkaperjantai"
    /\ ret.holyDay.texts.firstReading.text = Some("t-jes")
    /\ ret.holyDay.texts.firstReading.bookIntro = Some("i-jes")
    /\ ret.holyDay.texts.firstReading.crossReference = "Teksti sama kuin 1. vuosikerta"
    /\ ret.holyDay.texts.secondReading = reading(Some("Matt. 21:1-9"), NULL, NULL)
    /\ ret.holyDay.texts.gospel = reading(Some("ks. 1. vuosikerta"), Some("t-oma"), NULL)
    /\ ret.holyDay.allYearCycles["3"].firstReading.text = Some("")

\* ─── C22: the preface ending of a day ──────────────────────────────────────

\* A propers.json with its three collections, every preface ending with its
\* appliesTo list.
wellFormed(propers) ==
    /\ {"prefaatiot", "kyrieLitaniat", "kertosaakeet"} \subseteq DOMAIN propers
    /\ \A i \in 1..Len(propers.prefaatiot) : "appliesTo" \in DOMAIN propers.prefaatiot[i]

\* The preface endings of a propers.json that share a key with a set of keys.
matching(propers, keySet) ==
    {i \in 1..Len(propers.prefaatiot) : Range(propers.prefaatiot[i].appliesTo) \cap keySet # {}}

\* C22: on a propers.json with all its lists, getPrefaatio(slug, dayData)
\* returns null when no preface ending shares a key with the set of season
\* keys of the slug, and otherwise exactly the title, period and text of the
\* earliest such ending of the collection, whatever the order of the keys.
C22_FirstPrefaatioOfCollection ==
    returned("getPrefaatio") /\ wellFormed(propersFiles[dataFile]) =>
        LET found == matching(propersFiles[dataFile],
                              Range(getSeasonKeys(req.arg.slug, req.arg.dayData)))
        IN  /\ found = {} <=> ret = NULL
            /\ found # {} =>
                   /\ DOMAIN ret = {"title", "period", "text"}
                   /\ \E i \in found :
                          /\ \A k \in found : i <= k
                          /\ ret.title = propersFiles[dataFile].prefaatiot[i].title
                          /\ ret.period = propersFiles[dataFile].prefaatiot[i].period
                          /\ ret.text = propersFiles[dataFile].prefaatiot[i].text

\* The 5th Sunday of Lent has the keys paastonaika and karsimysaika, in that
\* order; in the reordered file the ending for karsimysaika comes first in
\* the collection and is the one returned.
C22_Witness ==
    /\ returned("getPrefaatio")
    /\ propersFiles[dataFile] = reorderedPropers
    /\ req.arg.slug = "5-paastonajan-sunnuntai"
    /\ getSeasonKeys(req.arg.slug, req.arg.dayData) = <<"paastonaika", "karsimysaika">>
    /\ Cardinality(matching(reorderedPropers, {"paastonaika", "karsimysaika"})) = 2
    /\ ret # NULL /\ ret.period = "kärsimysaikana"

\* ─── C23: the Kyrie litany of a day ────────────────────────────────────────

\* The season keys of the pending call, and whether the i-th of them gives a
\* hit: it has a litany slug in the table, and the file has a litany of it.
keysOfCall == getSeasonKeys(req.arg.slug, req.arg.dayData)
givesLitany(i) ==
    /\ keysOfCall[i] \in DOMAIN kyrieMapping
    /\ \E l \in Range(propersFiles[dataFile].kyrieLitaniat) :
           l.slug = kyrieMapping[keysOfCall[i]]

\* C23: on a propers.json with all its lists, getKyrieLitania(slug, dayData)
\* returns null when no season key gives a hit, and otherwise the litany
\* (the first of the collection with that slug) of the first season key, in
\* the order of getSeasonKeys, that gives one.
C23_LitanyOfFirstKey ==
    returned("getKyrieLitania") /\ wellFormed(propersFiles[dataFile]) =>
        LET litanies == propersFiles[dataFile].kyrieLitaniat
        IN  /\ (\A i \in 1..Len(keysOfCall) : ~givesLitany(i)) => ret = NULL
            /\ \A i \in 1..Len(keysOfCall) :
                   givesLitany(i) /\ (\A k \in 1..(i - 1) : ~givesLitany(k)) =>
                       \E n \in 1..Len(litanies) :
                           /\ ret = litanies[n]
                           /\ litanies[n].slug = kyrieMapping[keysOfCall[i]]
                           /\ \A m \in 1..(n - 1) : litanies[m].slug # litanies[n].slug

\* Good Friday has the keys karsimysaika and pitkaperjantai, both in the
\* table; the reordered file has no litany for the first, and the litany of
\* the second is returned.
C23_Witness ==
    /\ returned("getKyrieLitania")
    /\ propersFiles[dataFile] = reorderedPropers
    /\ req.arg.slug = "pitkaperjantai"
    /\ keysOfCall = <<"karsimysaika", "pitkaperjantai">>
    /\ ~givesLitany(1) /\ givesLitany(2)
    /\ ret # NULL /\ ret.slug = "pitkaperjantai-hiljainen-lauantai"

\* ─── C24: a propers.json that lacks a list ─────────────────────────────────

\* C24 (fails on the code): getPropers returns a result also when the
\* propers.json lacks a collection or a preface ending lacks its appliesTo
\* list, with null for the proper that cannot be found.
C24_MissingListsGiveNull ==
    returned("getPropers") =>
        /\ ret # TypeError
        /\ DOMAIN ret = {"prefaatio", "kyrieLitania", "kertosae"}
        /\ lacks(propersFiles[dataFile], "prefaatiot") => ret.prefaatio = NULL
        /\ lacks(propersFiles[dataFile], "kyrieLitaniat") => ret.kyrieLitania = NULL
        /\ lacks(propersFiles[dataFile], "kertosaakeet") => ret.kertosae = NULL

\* ─── C30: the litany of Good Friday and Holy Saturday ──────────────────────

\* C30 (fails on the code): for pitkaperjantai and hiljainen-lauantai,
\* getKyrieLitania returns the litany pitkaperjantai-hiljainen-lauantai
\* whenever the file has it, also when it has a karsimysaika litany.
C30_GoodFridayLitany ==
    /\ returned("getKyrieLitania")
    /\ req.arg.slug \in {"pitkaperjantai", "hiljainen-lauantai"}
    /\ wellFormed(propersFiles[dataFile])
    /\ \E l \in Range(propersFiles[dataFile].kyrieLitaniat) :
           l.slug = "pitkaperjantai-hiljainen-lauantai"
    => ret # NULL /\ ret.slug = "pitkaperjantai-hiljainen-lauantai"

\* ─── C25: the preceding Sunday is in the current week ──────────────────────

\* C25: when resolveDate(d) gives holyDay null, its precedingSunday is dated
\* before d and at most 6 days before d; and on a Sunday the calendar has a
\* sunday- or feast-typed entry, so that holyDay is not null.
C25_PrecedingSundayWithinWeek ==
    returned("resolveDate") =>
        LET d == parseDate(req.arg)
        IN  /\ ret.holyDay = NULL =>
                   /\ ret.precedingSunday # NULL
                   /\ parseDate(ret.precedingSunday.date) < d
                   /\ parseDate(ret.precedingSunday.date) >= d - 6
            /\ dayOfWeek(d) = 0 =>
                   /\ ret.holyDay # NULL
                   /\ \E i \in 1..Len(entriesOn(req.arg)) :
                          entriesOn(req.arg)[i].type \in {"sunday", "feast"}

\* A Saturday without an entry: the Sunday six days before it is returned.
C25_Witness ==
    /\ returned("resolveDate")
    /\ req.arg = <<2026, 2, 7>>
    /\ dayOfWeek(parseDate(req.arg)) = 6
    /\ ret.holyDay = NULL
    /\ ret.precedingSunday # NULL
    /\ ret.precedingSunday.date = <<2026, 2, 1>>
    /\ ret.precedingSunday.type = "sunday"

\* ─── C26: the preceding Sunday and the precedence rule ─────────────────────

\* What resolveDate returns for the date of the precedingSunday it returned.
onPrecedingSunday == firstAnswer(ret.precedingSunday.date)

\* The types of the calendar entries on the date of the precedingSunday.
typesOnPrecedingSunday ==
    {entriesOn(ret.precedingSunday.date)[i].type :
        i \in 1..Len(entriesOn(ret.precedingSunday.date))}

\* C26 (fails on the code): when resolveDate(d) gives holyDay null, its
\* precedingSunday has the slug of the holyDay that resolveDate returns for
\* the date of that precedingSunday.
C26_PrecedingSundayIsHolyDay ==
    returned("resolveDate") /\ ret.holyDay = NULL /\ ret.precedingSunday # NULL =>
        /\ onPrecedingSunday.holyDay # NULL
        /\ onPrecedingSunday.holyDay.slug = ret.precedingSunday.slug

\* C26, amended: when resolveDate(d) gives holyDay null, its precedingSunday
\* is the first sunday- or feast-typed entry the calendar lists on its date,
\* and resolveDate of that date returns the same entry, as holyDay or among
\* additionalServices: as holyDay exactly when the entry is feast-typed or
\* the date has no feast- and no special-typed entry.
C26_PrecedingSundayIsServed ==
    returned("resolveDate") /\ ret.holyDay = NULL /\ ret.precedingSunday # NULL =>
        LET listed == entriesOn(ret.precedingSunday.date)
            again  == onPrecedingSunday
        IN  /\ \E i \in 1..Len(listed) :
                   /\ listed[i].type \in {"sunday", "feast"}
                   /\ listed[i].slug = ret.precedingSunday.slug
                   /\ listed[i].type = ret.precedingSunday.type
                   /\ \A k \in 1..(i - 1) : listed[k].type \notin {"sunday", "feast"}
            /\ again.holyDay # NULL
            /\ ret.precedingSunday \in Range(<<again.holyDay>> \o again.additionalServices)
            /\ again.holyDay = ret.precedingSunday
                   <=> \/ ret.precedingSunday.type = "feast"
                       \/ typesOnPrecedingSunday \cap {"feast", "special"} = {}

\* The Monday after Mikkelinpäivä 2026: the preceding Sunday returned is the
\* numbered Sunday after Pentecost, while the Sunday itself resolves to
\* mikkelinpaiva with the numbered Sunday among the additional services.
C26_Witness ==
    /\ returned("resolveDate")
    /\ req.arg = <<2026, 10, 5>>
    /\ ret.holyDay = NULL
    /\ ret.precedingSunday # NULL
    /\ ret.precedingSunday.date = <<2026, 10, 4>>
    /\ ret.precedingSunday.type = "sunday"
    /\ onPrecedingSunday.holyDay.slug = "mikkelinpaiva"
    /\ Len(onPrecedingSunday.additionalServices) = 1
    /\ onPrecedingSunday.additionalServices[1] = ret.precedingSunday

\* ─── C27: the fixed Sundays after Pentecost ────────────────────────────────

\* C27 (fails on the code): generateChurchYear(Y) has exactly one entry for
\* each of apostolien-paiva, kirkastussunnuntai and reformaation-paiva.
C27_FixedSundaysEveryYear ==
    returned("generateChurchYear") =>
        \A slug \in {"apostolien-paiva", "kirkastussunnuntai", "reformaation-paiva"} :
            Cardinality(entriesOf(ret, slug)) = 1

\* C27, amended: with P Pentecost and T tuomiosunnuntai, generateChurchYear(Y)
\* has exactly one apostolien-paiva entry, on P + 42, and exactly one
\* kirkastussunnuntai entry, on P + 56; it has exactly one reformaation-paiva
\* entry, on P + 154, when that Sunday is before the last two Sundays of the
\* church year, and none when it is the second-to-last (it is never the
\* last): the entry of P + 154 is then valvomisen-sunnuntai.
C27_FixedSundaysUnlessLast ==
    returned("generateChurchYear") =>
        LET P == easterSunday(req.arg + 1) + 49
            T == FirstAdvent(req.arg + 1) - 7
        IN  /\ OnceOn(ret, "apostolien-paiva", P + 42)
            /\ OnceOn(ret, "kirkastussunnuntai", P + 56)
            /\ P + 154 <= T - 7
            /\ IF P + 154 < T - 7
               THEN OnceOn(ret, "reformaation-paiva", P + 154)
               ELSE /\ entriesOf(ret, "reformaation-paiva") = {}
                    /\ OnceOn(ret, "valvomisen-sunnuntai", P + 154)

\* A church year whose 22nd Sunday after Pentecost is its second-to-last
\* Sunday: Easter 2011 is late (24 April), and Sunday 2011-11-13 is
\* valvomisen-sunnuntai.
C27_Witness ==
    /\ returned("generateChurchYear")
    /\ req.arg = 2010
    /\ easterSunday(2011) + 49 + 154 = FirstAdvent(2011) - 14
    /\ \E k \in 1..Len(ret) :
           ret[k].slug = "valvomisen-sunnuntai" /\ ret[k].dateStr = <<2011, 11, 13>>
    /\ entriesOf(ret, "reformaation-paiva") = {}
    /\ Cardinality(entriesOf(ret, "apostolien-paiva")) = 1
    /\ Cardinality(entriesOf(ret, "kirkastussunnuntai")) = 1
    /\ \E k \in 1..Len(ret) :
           ret[k].slug = "tuomiosunnuntai" /\ ret[k].dateStr = <<2011, 11, 20>>

\* ─── C29: the numbering of the Sundays after Christmas ─────────────────────

\* C29 (fails on the code): a generateChurchYear(Y) with a
\* 2-sunnuntai-joulusta entry has a 1-sunnuntai-joulusta entry on an earlier
\* date.
C29_SecondAfterFirst ==
    returned("generateChurchYear") =>
        \A i \in entriesOf(ret, "2-sunnuntai-joulusta") :
            \E j \in entriesOf(ret, "1-sunnuntai-joulusta") : ret[j].date < ret[i].date

\* C29, amended: the Sunday 7 days before a 2-sunnuntai-joulusta entry of
\* generateChurchYear(Y) carries the 1-sunnuntai-joulusta entry, except when
\* it is 26 December: it then carries tapaninpaiva, and the list has no
\* 1-sunnuntai-joulusta entry.
C29_SecondAfterFirstOrTapani ==
    returned("generateChurchYear") =>
        \A i \in entriesOf(ret, "2-sunnuntai-joulusta") :
            IF ret[i].date - 7 = makeDate(req.arg, 12, 26)
            THEN /\ entriesOf(ret, "1-sunnuntai-joulusta") = {}
                 /\ OnceOn(ret, "tapaninpaiva", ret[i].date - 7)
            ELSE OnceOn(ret, "1-sunnuntai-joulusta", ret[i].date - 7)

\* Christmas 2032 is a Saturday: 26 December is the Sunday, and the Sunday
\* after it, 2 January 2033, is numbered 2.
C29_Witness ==
    /\ returned("generateChurchYear")
    /\ req.arg = 2032
    /\ dayOfWeek(makeDate(2032, 12, 26)) = 0
    /\ entriesOf(ret, "1-sunnuntai-joulusta") = {}
    /\ \E i \in 1..Len(ret) :
           ret[i].slug = "2-sunnuntai-joulusta" /\ ret[i].dateStr = <<2033, 1, 2>>

\* ─── C28: the Annunciation and Palm Sunday ─────────────────────────────────

\* C28 (fails on the code): no date from Palm Sunday (Easter - 7) to
\* Easter + 7 carries a marian-ilmestyspaiva entry, and resolveDate of Palm
\* Sunday gives palmusunnuntai as holyDay.
C28_NoAnnunciationFromPalmSunday ==
    returned("resolveDate") =>
        LET d == parseDate(req.arg)
            E == easterSunday(req.arg[1])
        IN  (E - 7 <= d /\ d <= E + 7) =>
                /\ \A i \in 1..Len(entriesOn(req.arg)) :
                       entriesOn(req.arg)[i].slug # "marian-ilmestyspaiva"
                /\ d = E - 7 =>
                       ret.holyDay # NULL /\ ret.holyDay.slug = "palmusunnuntai"

====
